---- MODULE Spec2Model ----
(***************************************************************************)
(* Model of the execution layer of ecoa-tools: the tool registry           *)
(* (app/utils/config.py), the ToolExecutor service                         *)
(* (app/services/executor.py): execute, execute_in_project,                *)
(* _find_output_files, _get_message, _find_cmakelists_dir and              *)
(* compile_project, and the handler of the project route                   *)
(* (app/routes/tools.py).                                                  *)
(*                                                                         *)
(* Spec is one call of execute or execute_in_project from its arguments to *)
(* its result.  CollectorSpec is _find_output_files called repeatedly on   *)
(* one directory, ReloadSpec is Config.reload running against              *)
(* Config.get_tool, ArchiveSpec is the archival of the outputs of several  *)
(* standalone runs, RouteSpec is one request to the project route, from    *)
(* its JSON body to its response, ReloadDuringCallSpec is a call with a    *)
(* build running against Config.reload, and TerminatingSpec is Spec for    *)
(* one registry under weak fairness of the steps of the call.              *)
(*                                                                         *)
(* Strings that the code takes apart are sequences: a tool identifier is a *)
(* sequence of words and "." separators (Config.get splits it on "."), a   *)
(* file name or an extension is a sequence of characters (the collector    *)
(* matches suffixes and sorts by code point).  A message is the sequence   *)
(* of the pieces of its f-string.                                          *)
(***************************************************************************)
EXTENDS Integers, Sequences, FiniteSets, TLC

\* ------------------------------------------------------------------ bounds
\* exit codes of a child process range over -MaxRc .. MaxRc
MaxRc == 1
\* the clock of datetime.now() takes the values 0 .. MaxClock
MaxClock == 1
\* _find_output_files is called up to MaxCollects times on one directory
MaxCollects == 2
\* up to MaxRuns standalone runs archive their outputs side by side
MaxRuns == 2

\* ------------------------------------------------- values of the YAML tree
\* yaml.safe_load yields nested dicts, lists, strings and integers; every
\* value carries its Python type so that isinstance, truthiness and .get
\* behave as in the interpreter.
DictV(f) == [t |-> "dict", d |-> f]
StrV(s) == [t |-> "str", s |-> s]
ListV(l) == [t |-> "list", l |-> l]
IntV(n) == [t |-> "int", n |-> n]
NoneV == [t |-> "none"]

\* Python truthiness (the `not tool_config`, `not command` tests)
Truthy(v) ==
    CASE v.t = "dict" -> DOMAIN v.d # {}
      [] v.t = "str" -> v.s # ""
      [] v.t = "list" -> Len(v.l) > 0
      [] v.t = "int" -> v.n # 0
      [] OTHER -> FALSE

\* dict.get(key): the value under key, None when the key is missing
DictGet(v, key) == IF key \in DOMAIN v.d THEN v.d[key] ELSE NoneV

\* dict.get(key, default)
DictGetDefault(v, key, default) == IF key \in DOMAIN v.d THEN v.d[key] ELSE default

\* -------------------------------------------------------- tool identifiers
\* str.split('.') on a sequence of words and "." separators: the segments
\* between the separators, empty segments included.
RECURSIVE SplitDots(_)
SplitDots(s) ==
    IF \A i \in 1..Len(s) : s[i] # "."
    THEN <<s>>
    ELSE LET i == CHOOSE j \in 1..Len(s) :
                      s[j] = "." /\ \A k \in 1..(j-1) : s[k] # "."
         IN <<SubSeq(s, 1, i-1)>> \o SplitDots(SubSeq(s, i+1, Len(s)))

\* the dictionary key a segment spells: a single word is that word, the
\* empty segment is the empty string; longer segments concatenate words and
\* spell no key of the registry.
SegmentKey(seg) ==
    IF Len(seg) = 1 THEN seg[1] ELSE IF Len(seg) = 0 THEN "" ELSE "<concatenation>"

\* Config.get: walk the dot-separated key through nested dicts
RECURSIVE GetWalk(_, _, _)
GetWalk(value, keys, default) ==
    IF keys = <<>> THEN value
    ELSE IF value.t = "dict"
         THEN LET next == DictGet(value, SegmentKey(Head(keys)))
              IN IF next.t = "none" THEN default
                 ELSE GetWalk(next, Tail(keys), default)
         ELSE default

Get(cfg, key, default) == GetWalk(cfg, SplitDots(key), default)

\* Config.get_tool: get(f'tools.{tool_id}')
GetTool(cfg, tool_id) == Get(cfg, <<"tools", ".">> \o tool_id, NoneV)

\* ------------------------------------------------------ names and sorting
\* code points of the characters that occur in the file names of the model
CharCode(c) ==
    CASE c = "." -> 46 [] c = "a" -> 97 [] c = "b" -> 98 [] c = "c" -> 99
      [] c = "d" -> 100 [] c = "h" -> 104 [] c = "l" -> 108 [] c = "m" -> 109
      [] c = "p" -> 112 [] c = "q" -> 113 [] c = "t" -> 116 [] c = "x" -> 120
      [] OTHER -> 0

\* Python's str < str: code-point order, a proper prefix sorts first
RECURSIVE StrLess(_, _)
StrLess(a, b) ==
    IF b = <<>> THEN FALSE
    ELSE IF a = <<>> THEN TRUE
    ELSE IF CharCode(Head(a)) # CharCode(Head(b))
         THEN CharCode(Head(a)) < CharCode(Head(b))
         ELSE StrLess(Tail(a), Tail(b))

\* str.endswith / the match of the glob pattern "*<ext>" on one name
EndsWith(name, ext) ==
    /\ Len(ext) <= Len(name)
    /\ SubSeq(name, Len(name) - Len(ext) + 1, Len(name)) = ext

\* a path is the directory it lies in and its base name; all paths that are
\* compared lie in one directory, so str order is the order of the names
PathOf(dir, name) == [dir |-> dir, name |-> name]
PathLess(p, q) == StrLess(p.name, q.name)

\* sorted(list): insertion of each element before the first greater one
RECURSIVE Insert(_, _)
Insert(x, s) ==
    IF s = <<>> THEN <<x>>
    ELSE IF PathLess(x, Head(s)) THEN <<x>> \o s
         ELSE <<Head(s)>> \o Insert(x, Tail(s))

RECURSIVE Sorted(_)
Sorted(s) == IF s = <<>> THEN <<>> ELSE Insert(Head(s), Sorted(Tail(s)))

\* some enumeration of a finite set as a sequence (directory listing order)
RECURSIVE SetToSeq(_)
SetToSeq(S) ==
    IF S = {} THEN <<>>
    ELSE LET x == CHOOSE y \in S : TRUE IN <<x>> \o SetToSeq(S \ {x})

\* file names and extensions of the model
ProjectXml == <<"p", ".", "x", "m", "l">>
ConfigXml == <<"c", ".", "x", "m", "l">>
MissingXml == <<"q", ".", "x", "m", "l">>
FileAH == <<"a", ".", "h">>
FileBTH == <<"b", ".", "t", ".", "h">>
FileMC == <<"m", ".", "c">>
DirDH == <<"d", ".", "h">>
ExtH == <<".", "h">>
ExtTH == <<".", "t", ".", "h">>
ExtC == <<".", "c">>
ExtXml == <<".", "x", "m", "l">>

\* ------------------------------------------------------- output collector
\* ToolExecutor._find_output_files: for each extension in turn, append the
\* regular files of the directory that match "*<ext>"; sort the whole list.
\* entries maps each name in the directory to "file" or "dir".
RECURSIVE GlobAll(_, _, _)
GlobAll(dir, entries, extensions) ==
    IF extensions = <<>> THEN <<>>
    ELSE LET ext == Head(extensions)
             hits == {n \in DOMAIN entries :
                          EndsWith(n, ext) /\ entries[n] = "file"}
         IN SetToSeq({PathOf(dir, n) : n \in hits})
              \o GlobAll(dir, entries, Tail(extensions))

FindOutputFiles(dir, entries, extensions) == Sorted(GlobAll(dir, entries, extensions))

\* ----------------------------------------------------------------- messages
\* str(int) for the integers of the model
IntToStr(n) ==
    CASE n = 0 -> <<"0">> [] n = 1 -> <<"1">> [] n = 2 -> <<"2">>
      [] n = 3 -> <<"3">> [] n = 4 -> <<"4">> [] n = -1 -> <<"-", "1">>
      [] n = -2 -> <<"-", "2">> [] OTHER -> <<"<int>">>

\* ToolExecutor._get_message
GetMessage(return_code, tool_id) ==
    IF return_code = 0
    THEN <<"Tool ">> \o tool_id \o <<" executed successfully">>
    ELSE IF return_code < 0
         THEN <<"Tool ">> \o tool_id \o <<" execution failed">>
         ELSE <<"Tool ">> \o tool_id \o <<" execution failed with code ">>
                \o IntToStr(return_code)

\* ----------------------------------------------------------------- registry
\* The tree yaml.safe_load returns for a config.yaml of the documented
\* shape: four tools, of which asctg declares the checker (-k) and the
\* config-file (-c) parameters, ldp declares the checker parameter and has
\* a compile block, and nocmd has no command.  Every tool declares the
\* output extensions exts.  The top-level verbose, uploads_dir, logs_dir
\* and projects_base_dir keys are left to the defaults of the properties.
CheckerParam ==
    DictV([name |-> StrV("checker"), flag |-> StrV("-k"),
           default |-> StrV("ecoa-exvt")])
ConfigFileParam ==
    DictV([name |-> StrV("config"), flag |-> StrV("-c"),
           required |-> StrV("true")])
CompileBlock ==
    DictV([default_log_library |-> StrV("log4cplus"),
           cmake_options |-> ListV(<< <<"-DLOG=", "${log_library}">> >>),
           make_options |-> ListV(<< <<"-j4">> >>),
           timeout |-> IntV(600)])

Registry(exts) ==
    DictV([outputs_dir |-> StrV("outputs"),
           tools |-> DictV(
             [exvt |-> DictV([command |-> StrV("ecoa-exvt"),
                              parameters |-> ListV(<<>>),
                              output_types |-> ListV(exts),
                              verbose_type |-> StrV("valued")]),
              asctg |-> DictV([command |-> StrV("ecoa-asctg"),
                               parameters |-> ListV(<<CheckerParam, ConfigFileParam>>),
                               output_types |-> ListV(exts),
                               verbose_type |-> StrV("valued")]),
              ldp |-> DictV([command |-> StrV("ecoa-ldp"),
                             parameters |-> ListV(<<CheckerParam>>),
                             output_types |-> ListV(exts),
                             compile |-> CompileBlock]),
              nocmd |-> DictV([name |-> StrV("no command")])])])

\* the keys of the top-level tools mapping (Config.tools)
ToolKeys(cfg) == DOMAIN Get(cfg, <<"tools">>, DictV(<<>>)).d

\* Config.verbose, Config.outputs_dir, Config.projects_base_dir
ConfigVerbose(cfg) == Get(cfg, <<"verbose">>, IntV(3)).n
OutputsDir(cfg) == Get(cfg, <<"outputs_dir">>, StrV("outputs")).s
ProjectsBaseDir(cfg) == Get(cfg, <<"projects_base_dir">>, StrV("projects")).s

\* the lists of declared output extensions the registry is loaded with
ExtLists == { <<>>, <<ExtC, ExtH>>, <<ExtH, ExtTH>>, <<ExtH, ExtXml>> }

\* ------------------------------------------------------------ optional values
\* a Python argument that may be None
Some(x) == [some |-> TRUE, v |-> x]
NoneName == [some |-> FALSE, v |-> <<>>]
NoneStr == [some |-> FALSE, v |-> ""]
NoneInt == [some |-> FALSE, v |-> 0]

\* -------------------------------------------------------------------- state
VARIABLES
    config,      \* Config._config: the loaded YAML tree
    dirEntries,  \* the working directory of the call (the project directory,
                 \* or the directory of the input file): name -> "file"/"dir"
    tree,        \* the sub-directories of the project: directory ->
                 \* [kind: "absent"/"dir"/"file", cmake: "none"/"file"/"dir"]
    buildFs,     \* the build directory <cmake_dir>/build
    outDirs,     \* the sub-directories of the outputs area
    outFiles,    \* the files copied into the outputs area
    clock,       \* the second datetime.now() reports
    pc,          \* "idle", "tool", "cmake", "make" or "done"
    req,         \* the arguments of the call in progress
    loc,         \* the local variables of the call in progress
    status,      \* "none", "raised" or "returned"
    error,       \* the exception raised to the caller
    result,      \* the dictionary returned to the caller
    spawned,     \* the subprocess.run calls made so far, in order
    fsLog,       \* the directories created and the files copied, in order
    compileCalls, \* the number of compile_project calls made so far
    collected,   \* the _find_output_files calls made on their own, in order:
                 \* the directory scanned, the extensions, the list returned
    cfgFile,     \* the file at Config.config_path: missing, not parseable, or
                 \* a YAML document
    reloader,    \* the thread that calls Config.reload: its position, the
                 \* document it loaded, the mapping in effect when it began
    lookup,      \* the thread that calls Config.get_tool: its position, the
                 \* locals keys and value of Config.get, the value returned,
                 \* and the mappings in effect while it ran
    runs,        \* the standalone runs whose tool exited with code 0, each
                 \* with its position in the archival and its locals
    http         \* the request the project route handles: its position, its
                 \* body, the verbosity resolved, the exception that left
                 \* the handler and the status code of the response

\* the state of one call of execute or execute_in_project
callVars == <<tree, buildFs, outDirs, outFiles, clock, pc, req, loc, status,
              error, result, spawned, fsLog, compileCalls>>

\* the state that a call of execute or execute_in_project leaves alone
aux == <<collected, cfgFile, reloader, lookup, runs, http>>

vars == <<config, dirEntries, callVars, aux>>

\* ---------------------------------------------------------------- file system
\* os.path.join(base, name) for the relative names of the model
\* the components of a name between its separators; a name that starts
\* with the separator has an empty first component
NameSegments(name) ==
    CASE name = "../uploads" -> <<"..", "uploads">>
      [] name = "/srv" -> <<"", "srv">>
      [] OTHER -> <<name>>

\* os.path.join(base, name): an absolute name discards the base
JoinPath(base, name) ==
    IF NameSegments(name)[1] = "" THEN <<name>> ELSE <<base, name>>

\* the directory the system reaches for a list of components: ".." steps
\* to the parent, and the root is its own parent
RECURSIVE Normalize(_, _)
Normalize(segments, reached) ==
    IF segments = <<>> THEN reached
    ELSE IF Head(segments) = ".."
    THEN Normalize(Tail(segments),
                   IF reached \in {<<>>, <<"">>} THEN reached
                   ELSE SubSeq(reached, 1, Len(reached) - 1))
    ELSE Normalize(Tail(segments), Append(reached, Head(segments)))

\* the place a joined path names
Locate(project_path) ==
    Normalize(IF Len(project_path) = 1 THEN NameSegments(project_path[1])
              ELSE <<project_path[1]>> \o NameSegments(project_path[2]),
              <<>>)

\* the entries of the file system: in the projects base directory p1 is a
\* project directory and f1 a regular file; next to the base directory lies
\* the uploads directory, and /srv is a directory elsewhere
ProjectKind(project_path) ==
    IF Locate(project_path) \in { <<"projects", "p1">>, <<"uploads">>, <<"", "srv">> }
    THEN "dir"
    ELSE IF Locate(project_path) = <<"projects", "f1">> THEN "file"
    ELSE "absent"

\* os.path.exists(os.path.join(directory, name)) for the working directory
\* (joining the empty name yields the directory itself)
ExistsIn(entries, name) == name = <<>> \/ name \in DOMAIN entries

\* The directory of an uploaded input file
UploadsDir == <<"uploads">>

\* --------------------------------------------------------------- exceptions
Raise(type, msg) == [type |-> type, msg |-> msg]
NoError == [type |-> "", msg |-> <<>>]

\* the message of the AttributeError of value.get on a non-dict
AttributeErrorOf(v) == <<"'", v.t, "' object has no attribute 'get'">>

\* captured output of a child process that ran
ChildStdout == <<"<stdout>">>
ChildStderr == <<"<stderr>">>

\* the outcomes of subprocess.run: the child exits with a code, the timeout
\* expires (TimeoutExpired), or the spawn fails (OSError)
RunOutcomes ==
    {[k |-> "exit", rc |-> r] : r \in (-MaxRc)..MaxRc}
      \cup {[k |-> "timeout", rc |-> 0], [k |-> "enoent", rc |-> 0],
            [k |-> "oserror", rc |-> 0]}

\* str(e) of a failed spawn: FileNotFoundError when the executable is
\* missing, another OSError otherwise
SpawnErrorText(k, command) ==
    IF k = "enoent"
    THEN <<"[Errno 2] No such file or directory: ", command>>
    ELSE <<"[Errno 13] Permission denied: ", command>>

\* ------------------------------------------------------ parameter resolution
\* the first parameter spec of the contract bound to flag, None if there is
\* none (the two scanning loops of execute_in_project)
FindParam(tool_config, flag) ==
    LET params == DictGetDefault(tool_config, "parameters", ListV(<<>>)).l
        hits == {i \in 1..Len(params) :
                    /\ DictGet(params[i], "flag").t = "str"
                    /\ DictGet(params[i], "flag").s = flag}
    IN IF hits = {} THEN NoneV
       ELSE params[CHOOSE i \in hits : \A j \in hits : i <= j]

\* the checker in effect: the caller's, else the declared default when the
\* contract declares -k
ResolveChecker(tool_config, checker) ==
    LET checker_param == FindParam(tool_config, "-k")
    IN IF Truthy(checker_param) /\ ~checker.some
       THEN Some(DictGetDefault(checker_param, "default", StrV("ecoa-exvt")).s)
       ELSE checker

\* variant: only None counts as missing, the empty string is passed on
ConfigFileMissing_OnlyNone(config_file) == ~config_file.some

\* `not config_file`: no config file was supplied (None or the empty string)
ConfigFileMissing(config_file) == ~config_file.some \/ config_file.v = <<>>

\* variant: the checker is put before the config file
ProjectCmd_CheckerFirst(tool_config, command, project_file, config_file, checker, verbose) ==
    <<<<command>>, <<"-p">>, project_file>>
      \o (IF checker.some /\ checker.v # ""
          THEN <<<<"-k">>, <<checker.v>>>> ELSE <<>>)
      \o (IF config_file.some /\ config_file.v # <<>>
          THEN <<<<"-c">>, config_file.v>> ELSE <<>>)
      \o (IF DictGetDefault(tool_config, "verbose_type", StrV("boolean")).s = "boolean"
          THEN <<<<"-v">>>>
          ELSE <<<<"-v">>, IntToStr(verbose)>>)

\* the argument vector of execute_in_project
ProjectCmd(tool_config, command, project_file, config_file, checker, verbose) ==
    <<<<command>>, <<"-p">>, project_file>>
      \o (IF config_file.some /\ config_file.v # <<>>
          THEN <<<<"-c">>, config_file.v>> ELSE <<>>)
      \o (IF checker.some /\ checker.v # ""
          THEN <<<<"-k">>, <<checker.v>>>> ELSE <<>>)
      \o (IF DictGetDefault(tool_config, "verbose_type", StrV("boolean")).s = "boolean"
          THEN <<<<"-v">>>>
          ELSE <<<<"-v">>, IntToStr(verbose)>>)

\* The checks of execute_in_project up to the spawn, in the order of the
\* code: the exception raised by the first failing check, or the resolved
\* call.
Failed(type, msg) == [ok |-> FALSE, error |-> Raise(type, msg)]

\* variant: the config file is checked before the project file
ResolveProject_ConfigFirst(cfg, entries, a) ==
    LET tool_config == GetTool(cfg, a.tool_id)
        project_path == JoinPath(ProjectsBaseDir(cfg), a.project_name)
    IN
    IF ~Truthy(tool_config)
    THEN Failed("ValueError", <<"Tool not found: ">> \o a.tool_id)
    ELSE IF tool_config.t # "dict"
    THEN Failed("AttributeError", AttributeErrorOf(tool_config))
    ELSE IF ~Truthy(DictGet(tool_config, "command"))
    THEN Failed("ValueError", <<"Command not defined for tool: ">> \o a.tool_id)
    ELSE IF ProjectKind(project_path) = "absent"
    THEN Failed("ProjectNotFoundError",
                <<"Project directory not found: ">> \o project_path)
    ELSE IF ProjectKind(project_path) # "dir"
    THEN Failed("ValueError", <<"Not a directory: ">> \o project_path)
    ELSE IF Truthy(FindParam(tool_config, "-c")) /\ ConfigFileMissing(a.config_file)
    THEN Failed("ValueError",
                <<"Tool ">> \o a.tool_id \o <<" requires config_file parameter">>)
    ELSE IF Truthy(FindParam(tool_config, "-c"))
            /\ ~ExistsIn(entries, a.config_file.v)
    THEN Failed("ProjectFileNotFoundError",
                <<"Config file not found: ">> \o project_path \o a.config_file.v)
    ELSE IF ~ExistsIn(entries, a.project_file)
    THEN Failed("ProjectFileNotFoundError",
                <<"Project file not found: ">> \o project_path \o a.project_file)
    ELSE LET command == DictGet(tool_config, "command").s
             verbose == IF a.verbose.some THEN a.verbose.v ELSE ConfigVerbose(cfg)
             checker == ResolveChecker(tool_config, a.checker)
         IN [ok |-> TRUE, tool_config |-> tool_config, command |-> command,
             dir |-> project_path, verbose |-> verbose, checker |-> checker,
             cmd |-> ProjectCmd(tool_config, command, a.project_file,
                                a.config_file, checker, verbose)]

ResolveProject(cfg, entries, a) ==
    LET tool_config == GetTool(cfg, a.tool_id)
        project_path == JoinPath(ProjectsBaseDir(cfg), a.project_name)
    IN
    IF ~Truthy(tool_config)
    THEN Failed("ValueError", <<"Tool not found: ">> \o a.tool_id)
    ELSE IF tool_config.t # "dict"
    THEN Failed("AttributeError", AttributeErrorOf(tool_config))
    ELSE IF ~Truthy(DictGet(tool_config, "command"))
    THEN Failed("ValueError", <<"Command not defined for tool: ">> \o a.tool_id)
    ELSE IF ProjectKind(project_path) = "absent"
    THEN Failed("ProjectNotFoundError",
                <<"Project directory not found: ">> \o project_path)
    ELSE IF ProjectKind(project_path) # "dir"
    THEN Failed("ValueError", <<"Not a directory: ">> \o project_path)
    ELSE IF ~ExistsIn(entries, a.project_file)
    THEN Failed("ProjectFileNotFoundError",
                <<"Project file not found: ">> \o project_path \o a.project_file)
    ELSE IF Truthy(FindParam(tool_config, "-c")) /\ ConfigFileMissing(a.config_file)
    THEN Failed("ValueError",
                <<"Tool ">> \o a.tool_id \o <<" requires config_file parameter">>)
    ELSE IF Truthy(FindParam(tool_config, "-c"))
            /\ ~ExistsIn(entries, a.config_file.v)
    THEN Failed("ProjectFileNotFoundError",
                <<"Config file not found: ">> \o project_path \o a.config_file.v)
    ELSE LET command == DictGet(tool_config, "command").s
             verbose == IF a.verbose.some THEN a.verbose.v ELSE ConfigVerbose(cfg)
             checker == ResolveChecker(tool_config, a.checker)
         IN [ok |-> TRUE, tool_config |-> tool_config, command |-> command,
             dir |-> project_path, verbose |-> verbose, checker |-> checker,
             cmd |-> ProjectCmd(tool_config, command, a.project_file,
                                a.config_file, checker, verbose)]

\* The checks of execute up to the spawn.  The input file lies in the
\* uploads directory; a.input_file is its base name.
ResolveExecute(cfg, entries, a) ==
    LET tool_config == GetTool(cfg, a.tool_id)
    IN
    IF ~Truthy(tool_config)
    THEN Failed("ValueError", <<"Tool not found: ">> \o a.tool_id)
    ELSE IF tool_config.t # "dict"
    THEN Failed("AttributeError", AttributeErrorOf(tool_config))
    ELSE IF ~Truthy(DictGet(tool_config, "command"))
    THEN Failed("ValueError", <<"Command not defined for tool: ">> \o a.tool_id)
    ELSE IF ~ExistsIn(entries, a.input_file)
    THEN Failed("ValueError",
                <<"Input file not found: ">> \o UploadsDir \o a.input_file)
    ELSE LET command == DictGet(tool_config, "command").s
             verbose == IF a.verbose.some THEN a.verbose.v ELSE ConfigVerbose(cfg)
         IN [ok |-> TRUE, tool_config |-> tool_config, command |-> command,
             dir |-> UploadsDir, verbose |-> verbose, checker |-> NoneStr,
             cmd |-> <<<<command>>, <<"-p">>, a.input_file, <<"-v">>,
                       IntToStr(verbose)>>]

\* ------------------------------------------------------------- project tree
\* common_output_dirs of _find_cmakelists_dir, in the order of the code
CommonOutputDirs == <<"6-output", "6-Output", "Output", "output", "build-output">>

\* the directories of the project tree the model distinguishes: the root,
\* the conventional output directories and two other sub-directories
TreeNodes == {".", "6-output", "6-Output", "Output", "output", "build-output",
              "src", "lib"}
Absent == [kind |-> "absent", cmake |-> "none"]
EmptyDir == [kind |-> "dir", cmake |-> "none"]
CMakeDir == [kind |-> "dir", cmake |-> "file"]
EmptyTree == [n \in TreeNodes |-> IF n = "." THEN EmptyDir ELSE Absent]

\* the shapes of the project tree a tool run may leave behind; in the last
\* one the entry 6-output/CMakeLists.txt is itself a directory
TreeShapes ==
    { EmptyTree,
      [EmptyTree EXCEPT !["src"] = EmptyDir],
      [EmptyTree EXCEPT !["6-output"] = CMakeDir],
      [EmptyTree EXCEPT !["6-output"] = EmptyDir, !["output"] = CMakeDir],
      [EmptyTree EXCEPT !["output"] = EmptyDir, !["."] = CMakeDir],
      [EmptyTree EXCEPT !["Output"] = [kind |-> "file", cmake |-> "none"],
                        !["src"] = CMakeDir],
      [EmptyTree EXCEPT !["src"] = CMakeDir, !["lib"] = CMakeDir],
      [EmptyTree EXCEPT !["6-output"] = EmptyDir, !["lib"] = CMakeDir],
      [EmptyTree EXCEPT !["6-output"] = [kind |-> "dir", cmake |-> "dir"],
                        !["src"] = CMakeDir] }

\* os.path.exists(os.path.join(node, "CMakeLists.txt"))
CMakeExists(t, n) == t[n].kind = "dir" /\ t[n].cmake # "none"

\* the first loop of _find_cmakelists_dir from index i on: the directory it
\* returns, "" when no conventional directory matches
RECURSIVE CommonDirMatch(_, _)
CommonDirMatch(t, i) ==
    IF i > Len(CommonOutputDirs) THEN ""
    ELSE LET candidate == CommonOutputDirs[i]
         IN IF t[candidate].kind = "dir"
            THEN IF CMakeExists(t, candidate) THEN candidate
                 ELSE IF CMakeExists(t, ".") THEN "."
                 ELSE CommonDirMatch(t, i + 1)
            ELSE CommonDirMatch(t, i + 1)

\* variant: the search falls back to the project root instead of raising
FindCMakeListsDir_RootFallback(t) ==
    IF CommonDirMatch(t, 1) # "" THEN {CommonDirMatch(t, 1)}
    ELSE IF {n \in TreeNodes : t[n].kind = "dir" /\ t[n].cmake = "file"} = {}
         THEN {"."}
         ELSE {n \in TreeNodes : t[n].kind = "dir" /\ t[n].cmake = "file"}

\* ToolExecutor._find_cmakelists_dir: the directories the search may return;
\* the empty set when it raises FileNotFoundError.  os.walk visits the root
\* first and the sub-directories in the order the system lists them.
FindCMakeListsDir(t) ==
    IF CommonDirMatch(t, 1) # "" THEN {CommonDirMatch(t, 1)}
    ELSE IF t["."].cmake = "file" THEN {"."}
    ELSE {n \in TreeNodes \ {"."} : t[n].kind = "dir" /\ t[n].cmake = "file"}

\* ---------------------------------------------------------- build directory
\* buildFs: exists (the build directory exists), bin ("none", "dir" or
\* "file": the entry named bin), top (the other entries of the build
\* directory), binFiles (the entries of bin).
\* the entries the model distinguishes, with os.path.isfile and os.access(X_OK)
EntryAttr(name) ==
    CASE name = "app" -> [isfile |-> TRUE, x |-> TRUE]
      [] name = "prog" -> [isfile |-> TRUE, x |-> TRUE]
      [] name = "Makefile" -> [isfile |-> TRUE, x |-> FALSE]
      [] name = "CMakeFiles" -> [isfile |-> FALSE, x |-> TRUE]
      [] OTHER -> [isfile |-> TRUE, x |-> FALSE]

NoBuildDir == [exists |-> FALSE, bin |-> "none", top |-> {}, binFiles |-> {}]
OldBuildDir == [exists |-> TRUE, bin |-> "none", top |-> {"app", "Makefile"},
                binFiles |-> {}]
BuildStates == {NoBuildDir, OldBuildDir}

\* what a successful configure step adds to the build directory
AfterCMake(b) == [b EXCEPT !.top = @ \cup {"Makefile", "CMakeFiles"}]

\* the build directories a successful build step may leave behind
AfterMake(b) ==
    { [b EXCEPT !.top = @ \cup {"app"}],
      [b EXCEPT !.bin = "dir", !.binFiles = @ \cup {"prog", "data.txt"}],
      [b EXCEPT !.bin = "file"] }

\* the regular files with the execute bit among names
ExecutablesIn(names) ==
    {n \in names : EntryAttr(n).isfile /\ EntryAttr(n).x}

\* the orders in which os.listdir may report a set of names
Listings(S) ==
    {q \in [1..Cardinality(S) -> S] : \A i, j \in DOMAIN q : q[i] = q[j] => i = j}

\* --------------------------------------------------------- compile settings
\* the compile block of the ldp contract, {} when there is none
CompileConfig(cfg) ==
    LET ldp_config == GetTool(cfg, <<"ldp">>)
    IN IF Truthy(ldp_config)
       THEN DictGetDefault(ldp_config, "compile", DictV(<<>>))
       ELSE DictV(<<>>)

\* opt.replace("${log_library}", log_library) on the pieces of one option
ReplaceLogLibrary(opt, log_library) ==
    [i \in DOMAIN opt |-> IF opt[i] = "${log_library}" THEN log_library ELSE opt[i]]

\* cmake_cmd of compile_project
CMakeCmd(cfg, log_library, cmake_options) ==
    LET default_cmake_options ==
            DictGetDefault(CompileConfig(cfg), "cmake_options", ListV(<<>>)).l
        opts == IF cmake_options # <<>> THEN cmake_options ELSE default_cmake_options
    IN <<<<"cmake">>, <<"..">>, <<"-DLDP_LOG_USE=", log_library>>>>
         \o [i \in DOMAIN opts |-> ReplaceLogLibrary(opts[i], log_library)]

\* make_cmd of compile_project
MakeCmd(cfg) ==
    <<<<"make">>>> \o
      DictGetDefault(CompileConfig(cfg), "make_options", ListV(<< <<"-j">> >>)).l

\* variant: the except branches report return code 0
CompileFailure_ZeroCode(stderr) ==
    [compile_success |-> FALSE, compile_stdout |-> <<>>, compile_stderr |-> stderr,
     compile_return_code |-> 0, executable_files |-> <<>>, cmake_dir |-> <<>>,
     build_dir |-> <<>>, cmake_command |-> <<>>, make_command |-> <<>>]

\* the three result records of the except branches of compile_project
CompileFailure(stderr) ==
    [compile_success |-> FALSE, compile_stdout |-> <<>>, compile_stderr |-> stderr,
     compile_return_code |-> -1, executable_files |-> <<>>, cmake_dir |-> <<>>,
     build_dir |-> <<>>, cmake_command |-> <<>>, make_command |-> <<>>]

CompileTimeout == CompileFailure(<<"Compilation timeout">>)
CompileNotFound(project_path) ==
    CompileFailure(<<"CMakeLists.txt not found in project: ">> \o project_path)
CompileUnexpected(text) == CompileFailure(<<"Unexpected error: ">> \o text)

\* ------------------------------------------------------------------ requests
\* the tool identifiers callers send: the four registered tools, an unknown
\* word, and identifiers with a "." in them
ToolIds ==
    { <<"exvt">>, <<"asctg">>, <<"ldp">>, <<"nocmd">>, <<"nosuch">>,
      <<"ldp", ".", "compile">>, <<"exvt", ".", "command">> }

NoReq ==
    [op |-> "none", tool_id |-> <<>>, input_file |-> <<>>, project_name |-> "",
     project_file |-> <<>>, verbose |-> NoneInt, checker |-> NoneStr,
     config_file |-> NoneName, compile |-> FALSE, log_library |-> NoneStr,
     cmake_options |-> [some |-> FALSE, v |-> <<>>]]

\* the caller's build request: no build, a build with the registry's
\* settings, or a build with a library and one extra configure option
BuildArgs ==
    { [compile |-> FALSE, log_library |-> NoneStr,
       cmake_options |-> [some |-> FALSE, v |-> <<>>]],
      [compile |-> TRUE, log_library |-> NoneStr,
       cmake_options |-> [some |-> FALSE, v |-> <<>>]],
      [compile |-> TRUE, log_library |-> Some("zlog"),
       cmake_options |-> Some(<< <<"-DUSE=", "${log_library}">> >>)] }

\* the caller's verbosity and checker: both left out, or both given
CallerOptions ==
    { [verbose |-> NoneInt, checker |-> NoneStr],
      [verbose |-> Some(1), checker |-> Some("ecoa-chk")] }

ExecuteRequests ==
    { [NoReq EXCEPT !.op = "execute", !.tool_id = t, !.input_file = f,
                    !.verbose = v] :
        t \in ToolIds, f \in {ProjectXml, MissingXml},
        v \in {NoneInt, Some(1)} }

ProjectRequests ==
    { [NoReq EXCEPT !.op = "execute_in_project", !.tool_id = t,
                    !.project_name = pn, !.project_file = pf,
                    !.verbose = o.verbose, !.checker = o.checker,
                    !.config_file = c, !.compile = ba.compile,
                    !.log_library = ba.log_library,
                    !.cmake_options = ba.cmake_options] :
        t \in ToolIds, pn \in {"p1", "f1", "zz"},
        pf \in {ProjectXml, MissingXml}, o \in CallerOptions,
        c \in {NoneName, Some(<<>>), Some(ConfigXml), Some(MissingXml)},
        ba \in BuildArgs }

\* ------------------------------------------------------------ request bodies
\* The values a JSON body may hold under a key: n is the integer of an int,
\* 0 or 1 for a bool, the integral part of a float; s the text of a string.
\* The kinds are "absent" (no such key), "null", "list", "int", "bool",
\* "float" and "str".
Json(k, n, s) == [k |-> k, n |-> n, s |-> s]

\* the value of a string of decimal digits, -1 when it is not one
RECURSIVE DecimalValue(_, _)
DecimalValue(s, acc) ==
    LET c == Head(s)
        digit == CASE c = "0" -> 0 [] c = "1" -> 1 [] c = "2" -> 2 [] c = "3" -> 3
                   [] c = "4" -> 4 [] c = "5" -> 5 [] c = "6" -> 6 [] c = "7" -> 7
                   [] c = "8" -> 8 [] c = "9" -> 9 [] OTHER -> -1
    IN IF s = <<>> THEN acc
       ELSE IF digit < 0 THEN -1
       ELSE DecimalValue(Tail(s), 10 * acc + digit)

\* int(value): numbers convert, a string converts when it is an optional
\* sign followed by decimal digits and raises ValueError otherwise, None
\* and containers raise TypeError
PyInt(value) ==
    CASE value.k \in {"int", "bool", "float"} -> [ok |-> TRUE, n |-> value.n, exc |-> ""]
      [] value.k = "str" ->
           LET signed == value.s # <<>> /\ Head(value.s) \in {"-", "+"}
               digits == IF signed THEN Tail(value.s) ELSE value.s
           IN IF digits = <<>> \/ DecimalValue(digits, 0) < 0
              THEN [ok |-> FALSE, n |-> 0, exc |-> "ValueError"]
              ELSE [ok |-> TRUE,
                    n |-> IF signed /\ Head(value.s) = "-"
                          THEN 0 - DecimalValue(digits, 0)
                          ELSE DecimalValue(digits, 0),
                    exc |-> ""]
      [] OTHER -> [ok |-> FALSE, n |-> 0, exc |-> "TypeError"]

\* the handler's resolution of the verbosity: int(data.get('verbose',
\* config.verbose)), with the default when int raises ValueError; any
\* other exception leaves the handler
ResolveVerbose(cfg, value) ==
    LET r == PyInt(IF value.k = "absent" THEN Json("int", ConfigVerbose(cfg), <<>>)
                   ELSE value)
    IN IF r.ok THEN [ok |-> TRUE, verbose |-> r.n, exc |-> ""]
       ELSE IF r.exc = "ValueError"
       THEN [ok |-> TRUE, verbose |-> ConfigVerbose(cfg), exc |-> ""]
       ELSE [ok |-> FALSE, verbose |-> 0, exc |-> r.exc]

\* the bodies posted to the project route: none of them asks for a build
RouteBodies ==
    { [tool |-> t, project_name |-> pn, project_file |-> ProjectXml,
       checker |-> k, config_file |-> c, verbose |-> v] :
        t \in { <<"exvt">>, <<"asctg">>, <<"nosuch">> },
        pn \in {"", "p1", "zz", "../uploads", "/srv"},
        k \in {NoneStr, Some(""), Some("ecoa-chk")},
        c \in {NoneName, Some(ConfigXml)},
        v \in { Json("absent", 0, <<>>), Json("int", 1, <<>>),
                Json("str", 0, <<"2">>), Json("str", 0, <<"-", "1">>),
                Json("str", 0, <<"h", "i">>), Json("str", 0, <<>>),
                Json("null", 0, <<>>), Json("bool", 1, <<>>),
                Json("float", 2, <<>>), Json("list", 0, <<>>) } }

\* the arguments the project route passes to execute_in_project
RouteArgs(body, verbose) ==
    [NoReq EXCEPT !.op = "execute_in_project", !.tool_id = body.tool,
                  !.project_name = body.project_name,
                  !.project_file = body.project_file,
                  !.verbose = Some(verbose), !.checker = body.checker,
                  !.config_file = body.config_file]

\* -------------------------------------------------------------------- locals
\* the local variables of a call, with two records of how its steps ended:
\* archive is "ok", "mkdir" (the creation of the outputs sub-directory
\* raised) or "copy" (a copy raised); build is "done" (compile_project
\* reached its return statement), or the step of compile_project that raised:
\* "notfound", "mkdir", "timeout", "enoent", "oserror" or "listing"
NoLoc ==
    [tool_config |-> NoneV, command |-> "", dir |-> <<>>, cmd |-> <<>>,
     outcome |-> "", rc |-> 0, generated_files |-> <<>>, log_library |-> "",
     cmake_options |-> <<>>, timeout |-> 0, cmake_dir |-> "",
     cmake_cmd |-> <<>>, make_cmd |-> <<>>, cmake_rc |-> 0,
     make_rc |-> NoneInt, archive |-> "", build |-> ""]

\* ------------------------------------------------------------ result records
\* the dictionary execute returns
ExecuteResult(a, command, success, output_files, stdout, stderr, return_code, message) ==
    [success |-> success, tool |-> a.tool_id, command |-> command,
     input_file |-> UploadsDir \o a.input_file, output_files |-> output_files,
     stdout |-> stdout, stderr |-> stderr, return_code |-> return_code,
     message |-> message]

\* the dictionary execute_in_project returns (result_dict before the merge)
ProjectResult(a, project_path, success, generated_files, stdout, stderr, return_code, message) ==
    [success |-> success, tool |-> a.tool_id, project_name |-> a.project_name,
     project_path |-> project_path, project_file |-> a.project_file,
     generated_files |-> generated_files, stdout |-> stdout, stderr |-> stderr,
     return_code |-> return_code, message |-> message]

\* the result of the call for a tool that ran and exited
ExitResult(a, l, return_code, files) ==
    IF a.op = "execute"
    THEN ExecuteResult(a, l.command, return_code = 0, files, ChildStdout,
                       ChildStderr, return_code, GetMessage(return_code, a.tool_id))
    ELSE ProjectResult(a, l.dir, return_code = 0, files, ChildStdout,
                       ChildStderr, return_code, GetMessage(return_code, a.tool_id))

\* variant: the timeout is reported with the message of a negative exit code
TimeoutResult_AsFailure(a, l) ==
    IF a.op = "execute"
    THEN ExecuteResult(a, l.command, FALSE, <<>>, <<>>,
                       <<"Execution timeout (5 minutes)">>, -1,
                       GetMessage(-1, a.tool_id))
    ELSE ProjectResult(a, l.dir, FALSE, <<>>, <<>>,
                       <<"Execution timeout (5 minutes)">>, -1,
                       GetMessage(-1, a.tool_id))

\* the result of the except subprocess.TimeoutExpired branches
TimeoutResult(a, l) ==
    IF a.op = "execute"
    THEN ExecuteResult(a, l.command, FALSE, <<>>, <<>>,
                       <<"Execution timeout (5 minutes)">>, -1,
                       <<"Tool execution timeout: ">> \o a.tool_id)
    ELSE ProjectResult(a, l.dir, FALSE, <<>>, <<>>,
                       <<"Execution timeout (5 minutes)">>, -1,
                       <<"Tool execution timeout: ">> \o a.tool_id)

\* variant: the except Exception branches leave out the captured streams
ExceptionResult_NoStreams(a, l, text) ==
    IF a.op = "execute"
    THEN [success |-> FALSE, tool |-> a.tool_id, command |-> l.command,
          input_file |-> UploadsDir \o a.input_file, output_files |-> <<>>,
          return_code |-> -1, message |-> <<"Execution error: ">> \o text]
    ELSE [success |-> FALSE, tool |-> a.tool_id, project_name |-> a.project_name,
          project_path |-> l.dir, project_file |-> a.project_file,
          generated_files |-> <<>>, return_code |-> -1,
          message |-> <<"Execution error: ">> \o text]

\* the result of the except Exception branches; text is str(e)
ExceptionResult(a, l, text) ==
    IF a.op = "execute"
    THEN ExecuteResult(a, l.command, FALSE, <<>>, <<>>, text, -1,
                       <<"Execution error: ">> \o text)
    ELSE ProjectResult(a, l.dir, FALSE, <<>>, <<>>, text, -1,
                       <<"Execution error: ">> \o text)

\* result_dict.update with the seven build fields
BuildFields ==
    {"compile_success", "compile_stdout", "compile_stderr",
     "compile_return_code", "executable_files", "cmake_dir", "build_dir"}

\* variant: the build fields are merged only for a build that succeeded
MergeCompile_OnlySuccess(r, compile_result) ==
    IF DOMAIN compile_result # {} /\ compile_result.compile_success
    THEN [k \in BuildFields |-> compile_result[k]] @@ r
    ELSE r

MergeCompile(r, compile_result) ==
    IF DOMAIN compile_result # {}
    THEN [k \in BuildFields |-> compile_result[k]] @@ r
    ELSE r

\* --------------------------------------------------------- the config file
\* the file a Config was constructed from holds the document it loaded
YamlFile(document) == [kind |-> "yaml", tree |-> document]
NoRun ==
    [pc |-> "idle", tool_id |-> <<>>, output_files |-> <<>>,
     output_subdir |-> <<>>, copied_files |-> <<>>]
NoRuns == [r \in 1..MaxRuns |-> NoRun]
NoReload == [pc |-> "idle", value |-> NoneV, before |-> NoneV, error |-> ""]
\* no request is being handled
NoHttp ==
    [pc |-> "idle",
     body |-> [tool |-> <<>>, project_name |-> "", project_file |-> <<>>,
               checker |-> NoneStr, config_file |-> NoneName,
               verbose |-> Json("absent", 0, <<>>)],
     verbose |-> 0, error |-> "", code |-> 0]

NoLookup ==
    [pc |-> "idle", tool_id |-> <<>>, keys |-> <<>>, value |-> NoneV,
     result |-> NoneV, seen |-> {}]

\* ------------------------------------------------------------------- initial
\* the working directory before the call: the project (or input) file and
\* the config file, with or without earlier output files
InitDirs ==
    { [n \in {ProjectXml, ConfigXml} |-> "file"],
      [n \in {ProjectXml, ConfigXml, FileAH, DirDH} |->
          IF n = DirDH THEN "dir" ELSE "file"] }

\* the sets of files a successful tool run may add to its working directory
CreatedSets == { {}, {FileBTH, FileMC} }

Init ==
    /\ config \in {Registry(exts) : exts \in ExtLists}
    /\ dirEntries \in InitDirs
    /\ tree = EmptyTree
    /\ buildFs = NoBuildDir
    /\ outDirs = {}
    /\ outFiles = {}
    /\ clock = 0
    /\ pc = "idle"
    /\ req = NoReq
    /\ loc = NoLoc
    /\ status = "none"
    /\ error = NoError
    /\ result = <<>>
    /\ spawned = <<>>
    /\ fsLog = <<>>
    /\ compileCalls = 0
    /\ collected = <<>>
    /\ cfgFile = YamlFile(config)
    /\ reloader = NoReload
    /\ lookup = NoLookup
    /\ runs = NoRuns
    /\ http = NoHttp

\* ------------------------------------------------------------ how a call ends
Returns(res) ==
    /\ pc' = "done"
    /\ status' = "returned"
    /\ result' = res
    /\ error' = error

Raises(e) ==
    /\ pc' = "done"
    /\ status' = "raised"
    /\ error' = e
    /\ result' = result

\* a variant that starts the process a second time
Spawn_Retried(what, argv, cwd) ==
    spawned' = spawned \o << [what |-> what, argv |-> argv, cwd |-> cwd],
                              [what |-> what, argv |-> argv, cwd |-> cwd] >>

Spawn(what, argv, cwd) ==
    spawned' = Append(spawned, [what |-> what, argv |-> argv, cwd |-> cwd])

\* --------------------------------------------------------------- the callers
\* ToolExecutor.execute up to subprocess.run
Execute(a) ==
    /\ pc = "idle"
    /\ a \in ExecuteRequests
    /\ req' = a
    /\ LET r == ResolveExecute(config, dirEntries, a)
       IN IF r.ok
          THEN /\ pc' = "tool"
               /\ loc' = [NoLoc EXCEPT !.tool_config = r.tool_config,
                                       !.command = r.command, !.dir = r.dir,
                                       !.cmd = r.cmd]
               /\ Spawn("tool", r.cmd, r.dir)
               /\ UNCHANGED <<status, error, result>>
          ELSE /\ Raises(r.error)
               /\ UNCHANGED <<loc, spawned>>
    /\ UNCHANGED <<aux, config, dirEntries, tree, buildFs, outDirs, outFiles, clock,
                   fsLog, compileCalls>>

\* ToolExecutor.execute_in_project up to subprocess.run
ExecuteInProject(a) ==
    /\ pc = "idle"
    /\ a \in ProjectRequests \/ a = RouteArgs(http.body, http.verbose)
    /\ req' = a
    /\ LET r == ResolveProject(config, dirEntries, a)
       IN IF r.ok
          THEN /\ pc' = "tool"
               /\ loc' = [NoLoc EXCEPT !.tool_config = r.tool_config,
                                       !.command = r.command, !.dir = r.dir,
                                       !.cmd = r.cmd]
               /\ Spawn("tool", r.cmd, r.dir)
               /\ UNCHANGED <<status, error, result>>
          ELSE /\ Raises(r.error)
               /\ UNCHANGED <<loc, spawned>>
    /\ UNCHANGED <<aux, config, dirEntries, tree, buildFs, outDirs, outFiles, clock,
                   fsLog, compileCalls>>

\* subprocess.run of the tool raises TimeoutExpired
ToolTimesOut ==
    /\ pc = "tool"
    /\ Returns(TimeoutResult(req, loc))
    /\ loc' = [loc EXCEPT !.outcome = "timeout"]
    /\ UNCHANGED <<aux, config, dirEntries, tree, buildFs, outDirs, outFiles, clock,
                   req, spawned, fsLog, compileCalls>>

\* subprocess.run of the tool raises an OSError: the spawn failed
ToolSpawnFails(k) ==
    /\ pc = "tool"
    /\ k \in {"enoent", "oserror"}
    /\ Returns(ExceptionResult(req, loc, SpawnErrorText(k, loc.command)))
    /\ loc' = [loc EXCEPT !.outcome = k]
    /\ UNCHANGED <<aux, config, dirEntries, tree, buildFs, outDirs, outFiles, clock,
                   req, spawned, fsLog, compileCalls>>

\* the working directory after the tool created the files of created
AddFiles(entries, created) ==
    [n \in DOMAIN entries \cup created |->
        IF n \in created THEN "file" ELSE entries[n]]

\* variant: the sub-directory is named after the tool alone
OutputSubdir_NoTimestamp(cfg, tool_id, now) ==
    [base |-> OutputsDir(cfg), tool |-> tool_id, ts |-> 0]

\* the sub-directory of the outputs area of a run: <outputs_dir>/<tool>_<timestamp>
OutputSubdir(cfg, tool_id, now) ==
    [base |-> OutputsDir(cfg), tool |-> tool_id, ts |-> now]

\* a variant that archives the outputs whatever the tool returned
ArchiveAfter_AnyExit(rc) ==
    TRUE

\* success = result.returncode == 0, the condition of the archival
ArchiveAfter(rc) ==
    rc = 0

\* ToolExecutor.execute from the return of subprocess.run on: collect the
\* outputs, and after exit code 0 create the outputs sub-directory and copy
\* each collected file into it.  Of the n + 1 file-system operations the
\* first failed-1 succeed; failed = n + 2 means none fails.  now is the
\* second datetime.now() reports after exit code 0.
ExecuteToolExits(rc, created, now) ==
    /\ pc = "tool"
    /\ req.op = "execute"
    /\ rc \in (-MaxRc)..MaxRc
    /\ created \in (IF rc = 0 THEN CreatedSets ELSE {{}})
    /\ now \in (IF rc = 0 THEN clock..MaxClock ELSE {clock})
    /\ clock' = now
    /\ dirEntries' = AddFiles(dirEntries, created)
    /\ LET output_files ==
               FindOutputFiles(loc.dir, AddFiles(dirEntries, created),
                   DictGetDefault(loc.tool_config, "output_types", ListV(<<>>)).l)
           n == Len(output_files)
           output_subdir == OutputSubdir(config, req.tool_id, now)
           dest == [i \in 1..n |-> PathOf(output_subdir, output_files[i].name)]
           copies == [i \in 1..n |-> [op |-> "copy", path |-> dest[i]]]
       IN IF ~ArchiveAfter(rc)
          THEN /\ Returns(ExitResult(req, loc, rc, <<>>))
               /\ loc' = [loc EXCEPT !.outcome = "exit", !.rc = rc]
               /\ UNCHANGED <<outDirs, outFiles, fsLog>>
          ELSE \E failed \in 1..(n + 2) :
                  IF failed = 1
                  THEN /\ Returns(ExceptionResult(req, loc,
                              <<"[Errno 13] Permission denied: ", output_subdir.base>>))
                       /\ loc' = [loc EXCEPT !.outcome = "exit", !.rc = rc,
                                             !.archive = "mkdir"]
                       /\ UNCHANGED <<outDirs, outFiles, fsLog>>
                  ELSE /\ loc' = [loc EXCEPT !.outcome = "exit", !.rc = rc,
                                             !.archive = IF failed = n + 2
                                                         THEN "ok" ELSE "copy"]
                       /\ outDirs' = outDirs \cup {output_subdir}
                       /\ outFiles' = outFiles \cup {dest[i] : i \in 1..(failed - 2)}
                       /\ fsLog' = fsLog
                              \o <<[op |-> "mkdir", path |-> PathOf(output_subdir, <<>>)]>>
                              \o SubSeq(copies, 1, failed - 2)
                       /\ IF failed = n + 2
                          THEN Returns(ExitResult(req, loc, 0, dest))
                          ELSE Returns(ExceptionResult(req, loc,
                                   <<"[Errno 28] No space left on device">>))
    /\ UNCHANGED <<aux, config, tree, buildFs, req, spawned, compileCalls>>

\* variant: a failed build clears the success flag of the merged result
MergedResult_BuildFlips(a, l, return_code, generated_files, compile_result) ==
    LET r == MergeCompile(ExitResult(a, l, return_code, generated_files),
                          compile_result)
    IN IF "compile_success" \in DOMAIN r
       THEN [r EXCEPT !.success = @ /\ r.compile_success]
       ELSE r

\* result_dict of execute_in_project after the merge of compile_result
MergedResult(a, l, return_code, generated_files, compile_result) ==
    MergeCompile(ExitResult(a, l, return_code, generated_files), compile_result)

\* variant: the build is started for every tool, not for ldp alone
CompileRequested_AnyTool(a, success) == success /\ a.compile

\* variant: the build does not wait for the tool to succeed
CompileRequested_AnyExit(a, success) == a.compile /\ a.tool_id = <<"ldp">>

\* the condition under which execute_in_project compiles
CompileRequested(a, success) == success /\ a.compile /\ a.tool_id = <<"ldp">>

\* variant: the files are collected whatever the exit code
GeneratedFiles_Always(l, entries, success) ==
    FindOutputFiles(l.dir, entries,
        DictGetDefault(l.tool_config, "output_types", ListV(<<>>)).l)

\* generated_files of execute_in_project
GeneratedFiles(l, entries, success) ==
    IF success
    THEN FindOutputFiles(l.dir, entries,
             DictGetDefault(l.tool_config, "output_types", ListV(<<>>)).l)
    ELSE <<>>

\* ToolExecutor.execute_in_project from the return of subprocess.run on,
\* when no build follows
ProjectToolExits(rc, created) ==
    /\ pc = "tool"
    /\ req.op = "execute_in_project"
    /\ rc \in (-MaxRc)..MaxRc
    /\ created \in (IF rc = 0 THEN CreatedSets ELSE {{}})
    /\ ~CompileRequested(req, rc = 0)
    /\ dirEntries' = AddFiles(dirEntries, created)
    /\ LET generated_files == GeneratedFiles(loc, AddFiles(dirEntries, created), rc = 0)
       IN /\ loc' = [loc EXCEPT !.outcome = "exit", !.rc = rc,
                                !.generated_files = generated_files]
          /\ Returns(MergedResult(req, loc, rc, generated_files, <<>>))
    /\ UNCHANGED <<aux, config, tree, buildFs, outDirs, outFiles, clock, req, spawned,
                   fsLog, compileCalls>>

\* how execute_in_project ends once compile_project has returned
ReturnsMerged(compile_result) ==
    Returns(MergedResult(req, loc, loc.rc, loc.generated_files, compile_result))

\* ToolExecutor.execute_in_project from the return of subprocess.run on,
\* when the build follows: read the build settings, then compile_project up
\* to subprocess.run of cmake.  t is the project tree the tool left behind
\* and b the build directory found in it: none, or that of an earlier build.
ProjectToolExitsAndCompiles(rc, created, t, b) ==
    /\ pc = "tool"
    /\ req.op = "execute_in_project"
    /\ rc \in (-MaxRc)..MaxRc
    /\ CompileRequested(req, rc = 0)
    /\ created \in (IF rc = 0 THEN CreatedSets ELSE {{}})
    /\ t \in TreeShapes
    /\ b \in BuildStates
    /\ dirEntries' = AddFiles(dirEntries, created)
    /\ tree' = t
    /\ compileCalls' = compileCalls + 1
    /\ LET generated_files == GeneratedFiles(loc, AddFiles(dirEntries, created), rc = 0)
           compile_config == CompileConfig(config)
           log_library ==
               IF req.log_library.some THEN req.log_library.v
               ELSE DictGetDefault(compile_config, "default_log_library",
                                   StrV("log4cplus")).s
           cmake_options ==
               IF req.cmake_options.some THEN req.cmake_options.v
               ELSE DictGetDefault(compile_config, "cmake_options", ListV(<<>>)).l
           timeout == DictGetDefault(compile_config, "timeout", IntV(600)).n
           l0 == [loc EXCEPT !.outcome = "exit", !.rc = rc,
                             !.generated_files = generated_files]
       IN IF FindCMakeListsDir(t) = {}
          THEN /\ Returns(MergedResult(req, loc, rc, generated_files,
                                       CompileNotFound(loc.dir)))
               /\ loc' = [l0 EXCEPT !.log_library = log_library,
                                    !.cmake_options = cmake_options,
                                    !.timeout = timeout,
                                    !.build = "notfound"]
               /\ buildFs' = b
               /\ UNCHANGED <<spawned, fsLog>>
          ELSE \E cmake_dir \in FindCMakeListsDir(t), mkdirOk \in BOOLEAN :
                 LET build_dir == loc.dir \o <<cmake_dir, "build">>
                     l == [l0 EXCEPT !.log_library = log_library,
                                      !.cmake_options = cmake_options,
                                      !.timeout = timeout,
                                      !.cmake_dir = cmake_dir,
                                      !.cmake_cmd = CMakeCmd(config, log_library,
                                                             cmake_options),
                                      !.make_cmd = MakeCmd(config)]
                 IN /\ loc' = [l EXCEPT !.build = IF mkdirOk THEN "" ELSE "mkdir"]
                    /\ IF mkdirOk
                       THEN /\ buildFs' = [b EXCEPT !.exists = TRUE]
                            /\ fsLog' = Append(fsLog,
                                   [op |-> "mkdir", path |-> PathOf(build_dir, <<>>)])
                            /\ Spawn("cmake", l.cmake_cmd, build_dir)
                            /\ pc' = "cmake"
                            /\ UNCHANGED <<status, error, result>>
                       ELSE /\ Returns(MergedResult(req, loc, rc, generated_files,
                                   CompileUnexpected(
                                   <<"[Errno 13] Permission denied: ">> \o build_dir)))
                            /\ buildFs' = b
                            /\ UNCHANGED <<spawned, fsLog>>
    /\ UNCHANGED <<aux, config, outDirs, outFiles, clock, req>>

\* a variant that scans the build directory as well as its bin directory
ScannedEntries_Both(b) ==
    b.top \cup b.binFiles

\* the entries compile_project looks at for executables: those of
\* <build_dir>/bin when it exists, else those of <build_dir>
ScannedEntries(b) ==
    IF b.bin = "dir" THEN b.binFiles ELSE b.top

\* compile_project from the listing of the executables on: the dictionaries
\* it may return for a build directory b; make_stderr is the captured or the
\* substituted error output of the build step
CompileDone(b, l, cmake_rc, make_rc, make_stderr) ==
    IF b.bin = "file"
    THEN {CompileUnexpected(<<"[Errno 20] Not a directory: ">>
                              \o l.dir \o <<l.cmake_dir, "build", "bin">>)}
    ELSE { [compile_success |-> (cmake_rc = 0) /\ (make_rc = 0),
            compile_stdout |-> <<"=== CMake Output ===">> \o ChildStdout
                                 \o <<"=== Make Output ===">>
                                 \o (IF cmake_rc = 0 THEN ChildStdout ELSE <<>>),
            compile_stderr |-> <<"=== CMake Errors ===">> \o ChildStderr
                                 \o <<"=== Make Errors ===">> \o make_stderr,
            compile_return_code |-> make_rc,
            executable_files |-> q,
            cmake_dir |-> l.dir \o <<l.cmake_dir>>,
            build_dir |-> l.dir \o <<l.cmake_dir, "build">>,
            cmake_command |-> l.cmake_cmd,
            make_command |-> l.make_cmd] :
           q \in Listings(ExecutablesIn(ScannedEntries(b))) }

\* a variant that lets the build step run whatever the configure step returned
CMakeSuccess_Always(rc) ==
    TRUE

\* cmake_success: the configure step exited with code 0
CMakeSuccess(rc) ==
    rc = 0

\* subprocess.run of cmake returns an exit code
CMakeExits(rc) ==
    /\ pc = "cmake"
    /\ rc \in (-MaxRc)..MaxRc
    /\ loc' = [loc EXCEPT !.cmake_rc = rc,
                          !.build = IF rc = 0 THEN ""
                                    ELSE IF buildFs.bin = "file" THEN "listing"
                                    ELSE "done"]
    /\ IF CMakeSuccess(rc)
       THEN /\ buildFs' = AfterCMake(buildFs)
            /\ Spawn("make", loc.make_cmd, loc.dir \o <<loc.cmake_dir, "build">>)
            /\ pc' = "make"
            /\ UNCHANGED <<status, error, result>>
       ELSE /\ \E compile_result \in CompileDone(buildFs, loc, rc, -1,
                       <<"CMake failed, make not executed">>) :
                  ReturnsMerged(compile_result)
            /\ UNCHANGED <<buildFs, spawned>>
    /\ UNCHANGED <<aux, config, dirEntries, tree, outDirs, outFiles, clock, req, fsLog,
                   compileCalls>>

\* subprocess.run of make returns an exit code; b is the build directory
\* the build step leaves behind
MakeExits(rc, b) ==
    /\ pc = "make"
    /\ rc \in (-MaxRc)..MaxRc
    /\ b \in (IF rc = 0 THEN AfterMake(buildFs) ELSE {buildFs})
    /\ buildFs' = b
    /\ \E compile_result \in CompileDone(b, loc, 0, rc, ChildStderr) :
           ReturnsMerged(compile_result)
    /\ loc' = [loc EXCEPT !.make_rc = Some(rc),
                          !.build = IF b.bin = "file" THEN "listing" ELSE "done"]
    /\ UNCHANGED <<aux, config, dirEntries, tree, outDirs, outFiles, clock, req,
                   spawned, fsLog, compileCalls>>

\* a variant that starts the stage again after a time-out, remembering in
\* loc.build whether the number of restarts is odd
BuildTimesOut_Restarts ==
    /\ pc \in {"cmake", "make"}
    /\ loc' = [loc EXCEPT !.build = IF @ = "" THEN "timeout" ELSE ""]
    /\ UNCHANGED <<aux, config, dirEntries, tree, buildFs, outDirs, outFiles, clock,
                   req, spawned, fsLog, compileCalls, pc, status, error, result>>

\* subprocess.run of cmake or make raises TimeoutExpired
BuildTimesOut ==
    /\ pc \in {"cmake", "make"}
    /\ ReturnsMerged(CompileTimeout)
    /\ loc' = [loc EXCEPT !.build = "timeout"]
    /\ UNCHANGED <<aux, config, dirEntries, tree, buildFs, outDirs, outFiles, clock,
                   req, spawned, fsLog, compileCalls>>

\* subprocess.run of cmake or make raises an OSError: FileNotFoundError is
\* caught by its own branch, any other by the branch for Exception
BuildSpawnFails(k) ==
    /\ pc \in {"cmake", "make"}
    /\ k \in {"enoent", "oserror"}
    /\ ReturnsMerged(IF k = "enoent"
                     THEN CompileFailure(SpawnErrorText(k, pc))
                     ELSE CompileUnexpected(SpawnErrorText(k, pc)))
    /\ loc' = [loc EXCEPT !.build = k]
    /\ UNCHANGED <<aux, config, dirEntries, tree, buildFs, outDirs, outFiles, clock,
                   req, spawned, fsLog, compileCalls>>

\* ----------------------------------------------------------- specification
Next ==
    \/ \E a \in ExecuteRequests : Execute(a)
    \/ \E a \in ProjectRequests : ExecuteInProject(a)
    \/ ToolTimesOut
    \/ \E k \in {"enoent", "oserror"} : ToolSpawnFails(k)
    \/ \E rc \in (-MaxRc)..MaxRc, created \in CreatedSets, now \in 0..MaxClock :
           ExecuteToolExits(rc, created, now)
    \/ \E rc \in (-MaxRc)..MaxRc, created \in CreatedSets : ProjectToolExits(rc, created)
    \/ \E rc \in (-MaxRc)..MaxRc, created \in CreatedSets, t \in TreeShapes,
          b \in BuildStates :
           ProjectToolExitsAndCompiles(rc, created, t, b)
    \/ \E rc \in (-MaxRc)..MaxRc : CMakeExits(rc)
    \/ \E rc \in (-MaxRc)..MaxRc, b \in AfterMake(buildFs) \cup {buildFs} : MakeExits(rc, b)
    \/ BuildTimesOut
    \/ \E k \in {"enoent", "oserror"} : BuildSpawnFails(k)

Spec == Init /\ [][Next]_vars

\* ------------------------------------------------- the collector on its own
\* no call of execute or execute_in_project is in progress or was made
NoCall ==
    /\ tree = EmptyTree
    /\ buildFs = NoBuildDir
    /\ outDirs = {}
    /\ outFiles = {}
    /\ clock = 0
    /\ pc = "idle"
    /\ req = NoReq
    /\ loc = NoLoc
    /\ status = "none"
    /\ error = NoError
    /\ result = <<>>
    /\ spawned = <<>>
    /\ fsLog = <<>>
    /\ compileCalls = 0

\* the lists the two loops of _find_output_files may build before the
\* sort: for each extension in turn the matching regular files, in the
\* order in which the directory happens to be listed
RECURSIVE GlobLists(_, _, _)
GlobLists(dir, entries, extensions) ==
    IF extensions = <<>> THEN {<<>>}
    ELSE LET ext == Head(extensions)
             hits == {n \in DOMAIN entries :
                          EndsWith(n, ext) /\ entries[n] = "file"}
         IN {h \o t : h \in Listings({PathOf(dir, n) : n \in hits}),
                      t \in GlobLists(dir, entries, Tail(extensions))}

\* variant: the list is returned in the order it was built
SortedOutput_AsListed(output_files) == output_files

\* return sorted(output_files)
SortedOutput(output_files) == Sorted(output_files)

\* the output extensions of the contracts of the registry
DeclaredOutputTypes(cfg) ==
    {DictGetDefault(DictGet(Get(cfg, <<"tools">>, DictV(<<>>)), t),
                    "output_types", ListV(<<>>)).l : t \in ToolKeys(cfg)}

CollectorInit ==
    /\ config \in {Registry(exts) : exts \in ExtLists}
    /\ dirEntries \in InitDirs
    /\ collected = <<>>
    /\ cfgFile = YamlFile(config)
    /\ reloader = NoReload
    /\ lookup = NoLookup
    /\ runs = NoRuns
    /\ http = NoHttp
    /\ NoCall

\* one call of ToolExecutor._find_output_files on the directory
FindOutputFilesCall(extensions, listed) ==
    /\ Len(collected) < MaxCollects
    /\ extensions \in DeclaredOutputTypes(config)
    /\ listed \in GlobLists(UploadsDir, dirEntries, extensions)
    /\ collected' = Append(collected,
           [entries |-> dirEntries, extensions |-> extensions,
            files |-> SortedOutput(listed)])
    /\ UNCHANGED <<config, dirEntries, callVars, runs, http, cfgFile, reloader, lookup>>

\* between two calls a tool writes a file into the directory
FileAppears(name) ==
    /\ name \in {FileAH, FileBTH, FileMC} \ DOMAIN dirEntries
    /\ dirEntries' = AddFiles(dirEntries, {name})
    /\ UNCHANGED <<config, callVars, runs, http, collected, cfgFile, reloader, lookup>>

CollectorNext ==
    \/ \E extensions \in DeclaredOutputTypes(config),
          listed \in UNION {GlobLists(UploadsDir, dirEntries, e) :
                                e \in DeclaredOutputTypes(config)} :
             FindOutputFilesCall(extensions, listed)
    \/ \E name \in {FileAH, FileBTH, FileMC} : FileAppears(name)

CollectorSpec == CollectorInit /\ [][CollectorNext]_vars

\* ------------------------------------------------- reload against get_tool
\* a later edition of config.yaml: exvt has another command, asctg and
\* nocmd are gone, and the top-level outputs_dir key is left out
EditedRegistry ==
    DictV([tools |-> DictV(
             [exvt |-> DictV([command |-> StrV("ecoa-exvt-2"),
                              output_types |-> ListV(<<ExtH>>),
                              verbose_type |-> StrV("valued")]),
              ldp |-> DictV([command |-> StrV("ecoa-ldp"),
                             output_types |-> ListV(<<ExtC>>)])])])

\* the states of the file: absent, not parseable as YAML, or one of three
\* documents, of which the empty one loads as None
FileStates ==
    { [kind |-> "missing", tree |-> NoneV], [kind |-> "invalid", tree |-> NoneV],
      YamlFile(Registry(<<ExtC, ExtH>>)), YamlFile(EditedRegistry),
      YamlFile(NoneV) }

\* the identifiers looked up while the file is reloaded
LookupIds == { <<"exvt">>, <<"asctg">>, <<"exvt", ".", "command">> }

ReloadInit ==
    /\ config = Registry(<<ExtC, ExtH>>)
    /\ cfgFile = YamlFile(config)
    /\ reloader = NoReload
    /\ lookup = NoLookup
    /\ runs = NoRuns
    /\ http = NoHttp
    /\ dirEntries = [n \in {ProjectXml} |-> "file"]
    /\ collected = <<>>
    /\ NoCall

\* the file is edited, removed or damaged
FileWritten(f) ==
    /\ f \in FileStates \ {cfgFile}
    /\ cfgFile' = f
    /\ UNCHANGED <<config, dirEntries, callVars, runs, http, collected, reloader, lookup>>

\* Config.reload -> _load_config, the os.path.exists test
ReloadCall ==
    /\ reloader.pc \in {"idle", "done", "raised"}
    /\ reloader' = IF cfgFile.kind = "missing"
                   THEN [pc |-> "raised", value |-> NoneV, before |-> config,
                         error |-> "FileNotFoundError"]
                   ELSE [pc |-> "open", value |-> NoneV, before |-> config,
                         error |-> ""]
    /\ UNCHANGED <<config, dirEntries, callVars, runs, http, collected, cfgFile, lookup>>

\* _load_config: open and yaml.safe_load; the result is not yet assigned
ReloadLoads ==
    /\ reloader.pc = "open"
    /\ reloader' =
          CASE cfgFile.kind = "missing" ->
                 [reloader EXCEPT !.pc = "raised", !.error = "FileNotFoundError"]
            [] cfgFile.kind = "invalid" ->
                 [reloader EXCEPT !.pc = "raised", !.error = "YAMLError"]
            [] OTHER ->
                 [reloader EXCEPT !.pc = "loaded", !.value = cfgFile.tree]
    /\ UNCHANGED <<config, dirEntries, callVars, runs, http, collected, cfgFile, lookup>>

\* variant: the loaded document is merged into the mapping in effect
Rebound_Updated(old, loaded) ==
    IF old.t = "dict" /\ loaded.t = "dict" THEN DictV(loaded.d @@ old.d)
    ELSE loaded

\* self._config = <loaded document>: the attribute is bound to the new object
Rebound(old, loaded) == loaded

\* _load_config: the assignment to self._config
ReloadAssigns ==
    /\ reloader.pc = "loaded"
    /\ config' = Rebound(config, reloader.value)
    /\ reloader' = [reloader EXCEPT !.pc = "done"]
    /\ lookup' = [lookup EXCEPT !.seen = IF lookup.pc = "walk"
                                         THEN @ \cup {config'} ELSE @]
    /\ UNCHANGED <<dirEntries, callVars, runs, http, collected, cfgFile>>

\* Config.get_tool -> Config.get: keys = key.split('.'); value = self._config
GetToolCall(tool_id) ==
    /\ lookup.pc \in {"idle", "done"}
    /\ tool_id \in LookupIds
    /\ lookup' = [pc |-> "walk", tool_id |-> tool_id,
                  keys |-> SplitDots(<<"tools", ".">> \o tool_id),
                  value |-> config, result |-> NoneV, seen |-> {config}]
    /\ UNCHANGED <<config, dirEntries, callVars, runs, http, collected, cfgFile, reloader>>

\* Config.get: one turn of the loop over keys, or the return after it
GetStep ==
    /\ lookup.pc = "walk"
    /\ lookup' =
          IF lookup.keys = <<>>
          THEN [lookup EXCEPT !.pc = "done", !.result = lookup.value]
          ELSE IF lookup.value.t = "dict"
          THEN LET next == DictGet(lookup.value, SegmentKey(Head(lookup.keys)))
               IN IF next.t = "none"
                  THEN [lookup EXCEPT !.pc = "done", !.result = NoneV]
                  ELSE [lookup EXCEPT !.value = next, !.keys = Tail(@)]
          ELSE [lookup EXCEPT !.pc = "done", !.result = NoneV]
    /\ UNCHANGED <<config, dirEntries, callVars, runs, http, collected, cfgFile, reloader>>

ReloadNext ==
    \/ \E f \in FileStates : FileWritten(f)
    \/ ReloadCall
    \/ ReloadLoads
    \/ ReloadAssigns
    \/ \E tool_id \in LookupIds : GetToolCall(tool_id)
    \/ GetStep

ReloadSpec == ReloadInit /\ [][ReloadNext]_vars

\* ----------------------------------------------- archival of several runs
\* The tail of ToolExecutor.execute after exit code 0, statement by
\* statement, for runs that proceed side by side (the routes serve each
\* request on its own thread) or one after the other.
ArchiveIdle ==
    /\ tree = EmptyTree
    /\ buildFs = NoBuildDir
    /\ pc = "idle"
    /\ req = NoReq
    /\ loc = NoLoc
    /\ status = "none"
    /\ error = NoError
    /\ result = <<>>
    /\ spawned = <<>>
    /\ compileCalls = 0
    /\ collected = <<>>
    /\ reloader = NoReload
    /\ lookup = NoLookup

idleVars == <<config, dirEntries, tree, buildFs, pc, req, loc, status, error,
              result, spawned, compileCalls, collected, cfgFile, reloader, lookup,
              http>>

\* the tools whose runs are archived
ArchivedTools == { <<"exvt">>, <<"ldp">> }

ArchiveInit ==
    /\ config = Registry(<<ExtC, ExtH>>)
    /\ cfgFile = YamlFile(config)
    /\ dirEntries \in InitDirs
    /\ outDirs = {}
    /\ outFiles = {}
    /\ fsLog = <<>>
    /\ clock = 0
    /\ runs = NoRuns
    /\ http = NoHttp
    /\ ArchiveIdle

\* the clock reaches the next second
Tick ==
    /\ clock < MaxClock
    /\ clock' = clock + 1
    /\ UNCHANGED <<idleVars, outDirs, outFiles, fsLog, runs>>

\* subprocess.run returned exit code 0 and the outputs were collected
RunCollects(r, tool_id) ==
    /\ runs[r].pc = "idle"
    /\ tool_id \in ArchivedTools
    /\ runs' = [runs EXCEPT ![r] =
          [NoRun EXCEPT !.pc = "collected", !.tool_id = tool_id,
             !.output_files =
                 FindOutputFiles(UploadsDir, dirEntries,
                     DictGetDefault(GetTool(config, tool_id), "output_types",
                                    ListV(<<>>)).l)]]
    /\ UNCHANGED <<idleVars, outDirs, outFiles, fsLog, clock>>

\* timestamp = datetime.now().strftime(...); output_subdir = os.path.join(...)
RunNamesSubdir(r) ==
    /\ runs[r].pc = "collected"
    /\ runs' = [runs EXCEPT ![r].pc = "named",
                            ![r].output_subdir =
                                OutputSubdir(config, runs[r].tool_id, clock)]
    /\ UNCHANGED <<idleVars, outDirs, outFiles, fsLog, clock>>

\* Path(output_subdir).mkdir(parents=True, exist_ok=True)
RunMakesSubdir(r) ==
    /\ runs[r].pc = "named"
    /\ outDirs' = outDirs \cup {runs[r].output_subdir}
    /\ fsLog' = Append(fsLog,
           [op |-> "mkdir", path |-> PathOf(runs[r].output_subdir, <<>>)])
    /\ runs' = [runs EXCEPT ![r].pc = "copying"]
    /\ UNCHANGED <<idleVars, outFiles, clock>>

\* one turn of the copy loop: shutil.copy2 writes dest, replacing a file
\* of that name
RunCopies(r) ==
    /\ runs[r].pc = "copying"
    /\ Len(runs[r].copied_files) < Len(runs[r].output_files)
    /\ LET output_file == runs[r].output_files[Len(runs[r].copied_files) + 1]
           dest == PathOf(runs[r].output_subdir, output_file.name)
       IN /\ outFiles' = outFiles \cup {dest}
          /\ fsLog' = Append(fsLog, [op |-> "copy", path |-> dest])
          /\ runs' = [runs EXCEPT ![r].copied_files = Append(@, dest)]
    /\ UNCHANGED <<idleVars, outDirs, clock>>

\* the loop is over: execute returns copied_files as output_files
RunReturns(r) ==
    /\ runs[r].pc = "copying"
    /\ Len(runs[r].copied_files) = Len(runs[r].output_files)
    /\ runs' = [runs EXCEPT ![r].pc = "done"]
    /\ UNCHANGED <<idleVars, outDirs, outFiles, fsLog, clock>>

ArchiveNext ==
    \/ Tick
    \/ \E r \in 1..MaxRuns, tool_id \in ArchivedTools : RunCollects(r, tool_id)
    \/ \E r \in 1..MaxRuns : RunNamesSubdir(r)
    \/ \E r \in 1..MaxRuns : RunMakesSubdir(r)
    \/ \E r \in 1..MaxRuns : RunCopies(r)
    \/ \E r \in 1..MaxRuns : RunReturns(r)

ArchiveSpec == ArchiveInit /\ [][ArchiveNext]_vars

\* Every subprocess.run call is given a time-out, so each child exits or is
\* timed out, and the calling thread goes on: a step of the call that can be
\* taken is eventually taken.
TerminatingInit ==
    /\ Init
    /\ config = Registry(<<ExtC, ExtH>>)
    /\ FileAH \in DOMAIN dirEntries

TerminatingSpec == TerminatingInit /\ [][Next]_vars /\ WF_vars(Next)

\* ============================================================ project route
\* The handler of POST /api/tools/execute-project for one request with a
\* JSON body.

RouteInit ==
    /\ config = Registry(<<ExtC, ExtH>>)
    /\ dirEntries \in InitDirs
    /\ cfgFile = YamlFile(config)
    /\ reloader = NoReload
    /\ lookup = NoLookup
    /\ runs = NoRuns
    /\ collected = <<>>
    /\ http = NoHttp
    /\ NoCall

\* the handler reads the body and validates it: project_name and
\* project_file must be non-empty and get_tool(tool_id) must be truthy
RouteValidates(body) ==
    /\ http.pc = "idle"
    /\ body \in RouteBodies
    /\ http' = IF body.project_name = "" \/ body.project_file = <<>>
                  \/ ~Truthy(GetTool(config, body.tool))
               THEN [http EXCEPT !.pc = "responded", !.body = body,
                                 !.error = "BadRequest", !.code = 400]
               ELSE [http EXCEPT !.pc = "validated", !.body = body]
    /\ UNCHANGED <<config, dirEntries, callVars, collected, cfgFile, reloader,
                   lookup, runs>>

\* the handler resolves the verbosity; an exception other than ValueError
\* leaves the handler and the application answers with status 500
RouteResolvesVerbose ==
    /\ http.pc = "validated"
    /\ LET r == ResolveVerbose(config, http.body.verbose)
       IN http' = IF r.ok
                  THEN [http EXCEPT !.pc = "resolved", !.verbose = r.verbose]
                  ELSE [http EXCEPT !.pc = "responded", !.error = r.exc,
                                    !.code = 500]
    /\ UNCHANGED <<config, dirEntries, callVars, collected, cfgFile, reloader,
                   lookup, runs>>

\* the handler calls executor.execute_in_project
RouteCallsExecutor ==
    /\ http.pc = "resolved"
    /\ ExecuteInProject(RouteArgs(http.body, http.verbose))

\* the handler answers: the record of the executor with status 200, or the
\* HTTP error the executor's exception is mapped to
RouteResponds ==
    /\ http.pc = "resolved"
    /\ pc = "done"
    /\ http' =
          IF status = "returned"
          THEN [http EXCEPT !.pc = "responded", !.code = 200]
          ELSE IF error.type \in {"ProjectNotFoundError", "ProjectFileNotFoundError"}
          THEN [http EXCEPT !.pc = "responded", !.error = "NotFound", !.code = 404]
          ELSE IF error.type = "ValueError"
          THEN [http EXCEPT !.pc = "responded", !.error = "BadRequest", !.code = 400]
          ELSE [http EXCEPT !.pc = "responded", !.error = "InternalServerError",
                            !.code = 500]
    /\ UNCHANGED <<config, dirEntries, callVars, collected, cfgFile, reloader,
                   lookup, runs>>

RouteNext ==
    \/ \E body \in RouteBodies : RouteValidates(body)
    \/ RouteResolvesVerbose
    \/ RouteCallsExecutor
    \/ ToolTimesOut
    \/ \E k \in {"enoent", "oserror"} : ToolSpawnFails(k)
    \/ \E rc \in (-MaxRc)..MaxRc, created \in CreatedSets : ProjectToolExits(rc, created)
    \/ RouteResponds

RouteSpec == RouteInit /\ [][RouteNext]_vars

\* ===================================================== reload during a call
\* One execute_in_project call of ldp with a build, while another thread
\* edits the configuration file and calls Config.reload.  The call reads the
\* registry when it starts (the contract) and again after the tool has
\* exited (the compile settings of ldp).

ReloadDuringCallInit ==
    /\ config = Registry(<<ExtC, ExtH>>)
    /\ dirEntries = [n \in {ProjectXml, ConfigXml} |-> "file"]
    /\ cfgFile = YamlFile(config)
    /\ reloader = NoReload
    /\ lookup = NoLookup
    /\ runs = NoRuns
    /\ collected = <<>>
    /\ http = NoHttp
    /\ NoCall

ReloadDuringCallNext ==
    \/ \E ba \in {b \in BuildArgs : b.compile} :
           ExecuteInProject([NoReq EXCEPT !.op = "execute_in_project",
                                          !.tool_id = <<"ldp">>,
                                          !.project_name = "p1",
                                          !.project_file = ProjectXml,
                                          !.compile = TRUE,
                                          !.log_library = ba.log_library,
                                          !.cmake_options = ba.cmake_options])
    \/ ToolTimesOut
    \/ \E rc \in (-MaxRc)..MaxRc, created \in CreatedSets : ProjectToolExits(rc, created)
    \/ \E rc \in (-MaxRc)..MaxRc, created \in CreatedSets, t \in TreeShapes,
          b \in BuildStates :
           ProjectToolExitsAndCompiles(rc, created, t, b)
    \/ \E rc \in (-MaxRc)..MaxRc : CMakeExits(rc)
    \/ \E rc \in (-MaxRc)..MaxRc, b \in AfterMake(buildFs) \cup {buildFs} : MakeExits(rc, b)
    \/ BuildTimesOut
    \/ \E f \in {YamlFile(Registry(<<ExtC, ExtH>>)), YamlFile(EditedRegistry)} :
           FileWritten(f)
    \/ ReloadCall
    \/ ReloadLoads
    \/ ReloadAssigns

ReloadDuringCallSpec == ReloadDuringCallInit /\ [][ReloadDuringCallNext]_vars

\* ================================================================== claims
\* the identifier is a key of the top-level tools mapping
IsToolKey(id) == Len(id) = 1 /\ id[1] \in ToolKeys(config)

\* what subprocess.run was called for so far
SpawnedKinds == {spawned[i].what : i \in DOMAIN spawned}

\* some directory was created so far
DirCreated == \E i \in DOMAIN fsLog : fsLog[i].op = "mkdir"

\* the call in progress is execute_in_project
InProject == req.op = "execute_in_project"

\* the list of files in the returned dictionary
ResultFiles ==
    IF req.op = "execute" THEN result.output_files ELSE result.generated_files

\* C1: a call of execute or execute_in_project with a tool identifier that
\* is not a key of the tools mapping ends by raising ValueError "Tool not
\* found: <id>", with no subprocess.run call made.
C1_UnknownToolNotFound ==
    (req.op # "none" /\ ~IsToolKey(req.tool_id)) =>
        /\ pc = "done"
        /\ status = "raised"
        /\ error = Raise("ValueError", <<"Tool not found: ">> \o req.tool_id)
        /\ spawned = <<>>

\* the contract the call resolves declares a parameter bound to -c
DeclaresConfigFile ==
    LET tool_config == GetTool(config, req.tool_id)
    IN /\ tool_config.t = "dict"
       /\ Truthy(FindParam(tool_config, "-c"))

\* the caller supplied no config_file: None or the empty string
NoConfigFileSupplied ==
    req.config_file = NoneName \/ req.config_file = Some(<<>>)

\* the exception that reports the missing config_file parameter
MissingParameter ==
    Raise("ValueError",
          <<"Tool ">> \o req.tool_id \o <<" requires config_file parameter">>)

\* C2 as stated: every execute_in_project call for a contract that declares
\* -c, made without a config_file, raises the missing-parameter error that
\* names the tool, and spawns nothing.
C2_Original ==
    (InProject /\ DeclaresConfigFile /\ NoConfigFileSupplied) =>
        /\ pc = "done"
        /\ status = "raised"
        /\ error = MissingParameter
        /\ spawned = <<>>

\* the checks that precede the config-file check pass: the contract has a
\* command, the project directory exists and holds the project file
EarlierChecksPass ==
    /\ Truthy(DictGet(GetTool(config, req.tool_id), "command"))
    /\ ProjectKind(JoinPath(ProjectsBaseDir(config), req.project_name)) = "dir"
    /\ req.project_file \in DOMAIN dirEntries

\* C2 amended: every execute_in_project call for a contract that declares
\* -c, made without a config_file, raises before anything is spawned; when
\* the contract has a command and the project directory and project file
\* exist, the exception is the missing-parameter error that names the tool.
C2_MissingConfigFile ==
    (InProject /\ DeclaresConfigFile /\ NoConfigFileSupplied) =>
        /\ pc = "done"
        /\ status = "raised"
        /\ spawned = <<>>
        /\ EarlierChecksPass => error = MissingParameter

C2_Witness ==
    /\ InProject /\ DeclaresConfigFile /\ NoConfigFileSupplied
    /\ EarlierChecksPass
    /\ req.tool_id = <<"asctg">>
    /\ status = "raised"
    /\ error = MissingParameter

\* C3: in every returned dictionary, success = false implies an empty file
\* list, and so does a non-zero return code.
C3_NoFilesUnlessSuccess ==
    status = "returned" =>
        /\ ~result.success => ResultFiles = <<>>
        /\ result.return_code # 0 => ResultFiles = <<>>

\* the regular files of the working directory that match a declared extension
MatchingFiles ==
    LET exts == DictGetDefault(loc.tool_config, "output_types", ListV(<<>>)).l
    IN {n \in DOMAIN dirEntries :
           dirEntries[n] = "file" /\ \E i \in DOMAIN exts : EndsWith(n, exts[i])}

\* a tool exited non-zero in a directory that holds matching files
C3_Witness ==
    /\ status = "returned"
    /\ loc.outcome = "exit"
    /\ result.return_code = 1
    /\ ~result.success
    /\ MatchingFiles # {}
    /\ ResultFiles = <<>>

\* C4: after a successful project run generated_files is sorted and holds
\* each matching regular file of the project directory exactly once, and
\* nothing else.
C4_ExactlyOnceSorted ==
    (InProject /\ status = "returned" /\ result.success) =>
        LET g == result.generated_files
        IN /\ \A i, j \in DOMAIN g : i < j => ~PathLess(g[j], g[i])
           /\ \A i \in DOMAIN g : g[i].name \in MatchingFiles
           /\ \A n \in MatchingFiles :
                  Cardinality({i \in DOMAIN g : g[i].name = n}) = 1

\* C5: the dictionary execute_in_project returns holds the seven build
\* fields if compile_project was called during the call, and none of them
\* if it was not.
C5_BuildFieldsIffCompiled ==
    (InProject /\ status = "returned") =>
        /\ compileCalls > 0 => BuildFields \subseteq DOMAIN result
        /\ compileCalls = 0 => BuildFields \cap DOMAIN result = {}

\* a build was attempted and failed: its fields are in the result
C5_Witness ==
    /\ InProject
    /\ status = "returned"
    /\ compileCalls = 1
    /\ BuildFields \subseteq DOMAIN result
    /\ ~result.compile_success

\* a build was requested for the build-capable tool
BuildRequestedForLdp == InProject /\ req.compile /\ req.tool_id = <<"ldp">>

\* the tool run did not succeed: non-zero exit, timeout or failed spawn
ToolRunFailed ==
    \/ loc.outcome \in {"timeout", "enoent", "oserror"}
    \/ loc.outcome = "exit" /\ loc.rc # 0

\* C6: when a build is requested for ldp and the tool run does not succeed,
\* compile_project is not called, neither cmake nor make is spawned, no
\* directory is created, and the returned dictionary has no build field.
C6_NoBuildAfterFailedRun ==
    (BuildRequestedForLdp /\ ToolRunFailed) =>
        /\ pc = "done"
        /\ status = "returned"
        /\ compileCalls = 0
        /\ SpawnedKinds = {"tool"}
        /\ ~DirCreated
        /\ BuildFields \cap DOMAIN result = {}

C6_Witness ==
    /\ BuildRequestedForLdp
    /\ loc.outcome = "exit"
    /\ loc.rc = 1
    /\ status = "returned"
    /\ BuildFields \cap DOMAIN result = {}

\* the message of the timeout branches
TimeoutMessage == <<"Tool execution timeout: ">> \o req.tool_id

\* C7: a tool run that times out returns success = false, return_code = -1
\* and the timeout message, which is the message of no exit code; a run
\* that ends otherwise never returns the timeout message.
C7_TimeoutDistinct ==
    status = "returned" =>
        IF loc.outcome = "timeout"
        THEN /\ ~result.success
             /\ result.return_code = -1
             /\ result.message = TimeoutMessage
             /\ \A rc \in (-MaxRc)..MaxRc :
                    result.message # GetMessage(rc, req.tool_id)
             /\ \A k \in {"enoent", "oserror"} :
                    result.message #
                        <<"Execution error: ">> \o SpawnErrorText(k, loc.command)
        ELSE result.message # TimeoutMessage

C7_Witness ==
    /\ status = "returned"
    /\ loc.outcome = "timeout"
    /\ result.message = TimeoutMessage
    /\ result.return_code = -1

\* C8: when the tool of a standalone execute exits with code 0, the
\* returned dictionary has success = true, whatever happens to the creation
\* of the outputs sub-directory and to the copies.
C8_CopyErrorKeepsSuccess ==
    (req.op = "execute" /\ status = "returned"
        /\ loc.outcome = "exit" /\ loc.rc = 0) => result.success

\* the dictionary the same tool run returns when no build is requested
NoBuildResult ==
    LET files == IF loc.rc = 0
                 THEN FindOutputFiles(loc.dir, dirEntries,
                          DictGetDefault(loc.tool_config, "output_types",
                                         ListV(<<>>)).l)
                 ELSE <<>>
    IN ExitResult(req, loc, loc.rc, files)

\* C9: whatever compile_project returns, success, return_code,
\* generated_files and message of the dictionary execute_in_project returns
\* are those of the same run without a build; success is exit code = 0.
C9_BuildNeverFlipsSuccess ==
    (InProject /\ status = "returned" /\ loc.outcome = "exit") =>
        /\ result.success = (loc.rc = 0)
        /\ result.success = NoBuildResult.success
        /\ result.return_code = NoBuildResult.return_code
        /\ result.generated_files = NoBuildResult.generated_files
        /\ result.message = NoBuildResult.message

\* the build failed after a successful tool run
C9_Witness ==
    /\ InProject
    /\ status = "returned"
    /\ compileCalls = 1
    /\ "cmake" \in SpawnedKinds
    /\ ~result.compile_success
    /\ result.success
    /\ result.generated_files # <<>>

\* no directory of the project tree holds a CMakeLists.txt
NoDescriptor == \A n \in TreeNodes : tree[n].cmake = "none"

\* C10: a build requested for ldp after a successful tool run, in a project
\* tree without CMakeLists.txt, returns compile_success = false, no
\* executable files and the not-found message, leaves success = true, and
\* neither spawns cmake or make nor creates a directory.
C10_DescriptorNotFound ==
    (BuildRequestedForLdp /\ loc.outcome = "exit" /\ loc.rc = 0 /\ NoDescriptor) =>
        /\ pc = "done"
        /\ status = "returned"
        /\ result.success
        /\ "compile_success" \in DOMAIN result
        /\ ~result.compile_success
        /\ result.executable_files = <<>>
        /\ result.compile_stderr =
               <<"CMakeLists.txt not found in project: ">> \o loc.dir
        /\ SpawnedKinds = {"tool"}
        /\ ~DirCreated

\* the build directory of an earlier build holds executables
C10_Witness ==
    /\ BuildRequestedForLdp /\ loc.outcome = "exit" /\ loc.rc = 0 /\ NoDescriptor
    /\ status = "returned"
    /\ ~result.compile_success
    /\ ExecutablesIn(buildFs.top) # {}

\* a build is requested for an identifier other than ldp
BuildRequestedForOther == InProject /\ req.compile /\ req.tool_id # <<"ldp">>

\* the same request with the build arguments left out
WithoutBuild(a) ==
    [a EXCEPT !.compile = FALSE, !.log_library = NoneStr,
              !.cmake_options = [some |-> FALSE, v |-> <<>>]]

\* C11: an execute_in_project call with compile = true for an identifier
\* other than ldp goes as the call without the build arguments goes: it is
\* rejected only by a check that rejects that call too, it spawns the same
\* tool command and nothing else, compile_project is never called, no
\* directory is created, and the returned dictionary is that of the tool
\* run, without build fields.
C11_BuildIgnoredForOtherTools ==
    BuildRequestedForOther =>
        LET r == ResolveProject(config, dirEntries, WithoutBuild(req))
        IN /\ compileCalls = 0
           /\ ~DirCreated
           /\ pc \notin {"cmake", "make"}
           /\ status = "raised" <=> ~r.ok
           /\ status = "raised" => error = r.error /\ spawned = <<>>
           /\ status # "raised" =>
                  spawned = <<[what |-> "tool", argv |-> r.cmd, cwd |-> r.dir]>>
           /\ status = "returned" =>
                  /\ BuildFields \cap DOMAIN result = {}
                  /\ loc.outcome = "exit" => result = NoBuildResult

\* the tool of such a call succeeded and left files behind
C11_Witness ==
    /\ BuildRequestedForOther
    /\ req.tool_id = <<"exvt">>
    /\ status = "returned"
    /\ result.success
    /\ result.generated_files # <<>>
    /\ BuildFields \cap DOMAIN result = {}

\* a step of compile_project raised: the search for CMakeLists.txt, the
\* creation of the build directory, the run of cmake or make (timeout, or a
\* spawn that failed), or the listing of the executables
BuildStepRaised ==
    loc.build \in {"notfound", "mkdir", "timeout", "enoent", "oserror", "listing"}

\* C12: a call in which compile_project was called never ends by raising:
\* it returns a dictionary that holds the fields of the record
\* compile_project returned; and when a step of compile_project raised,
\* that record has compile_success = false and compile_return_code = -1.
C12_CompileNeverRaises ==
    /\ compileCalls > 0 => status # "raised"
    /\ (compileCalls > 0 /\ pc = "done") =>
           status = "returned" /\ BuildFields \subseteq DOMAIN result
    /\ BuildStepRaised =>
           /\ compileCalls > 0
           /\ pc = "done"
           /\ status = "returned"
           /\ ~result.compile_success
           /\ result.compile_return_code = -1

\* the make executable is missing
C12_Witness ==
    /\ loc.build = "enoent"
    /\ spawned[Len(spawned)].what = "make"
    /\ status = "returned"
    /\ ~result.compile_success
    /\ result.compile_return_code = -1

\* subprocess.run of the tool raised: the timeout expired or the spawn failed
InfrastructureFailure == loc.outcome \in {"timeout", "enoent", "oserror"}

\* C13: once the checks have passed and the tool is spawned, the call never
\* ends by raising; when the spawn fails or the timeout expires, it returns
\* a dictionary with success = false and return_code = -1 whose keys are
\* those of the dictionary returned for a tool that exited with code 1.
C13_InfrastructureFailureReturned ==
    /\ spawned # <<>> => status # "raised"
    /\ InfrastructureFailure =>
           /\ pc = "done"
           /\ status = "returned"
           /\ ~result.success
           /\ result.return_code = -1
           /\ DOMAIN result = DOMAIN ExitResult(req, loc, 1, <<>>)

\* the executable of the tool is missing, in a project call
C13_Witness ==
    /\ InProject
    /\ loc.outcome = "enoent"
    /\ status = "returned"
    /\ result.return_code = -1
    /\ result.stderr = SpawnErrorText("enoent", loc.command)

\* the project directory the call names
RequestedProjectPath == <<"projects", req.project_name>>

\* the first of the seven checks of execute_in_project that fails for the
\* call in progress, 0 when all pass: 1 the registry has an entry for the
\* identifier, 2 the entry defines a command, 3 the project path exists,
\* 4 it is a directory, 5 it holds the project file, 6 a config file is
\* supplied if the contract declares -c, 7 that config file exists
FirstFailingCheck ==
    LET entry == GetTool(config, req.tool_id)
    IN IF entry = NoneV THEN 1
       ELSE IF entry.t # "dict" \/ "command" \notin DOMAIN entry.d THEN 2
       ELSE IF ProjectKind(RequestedProjectPath) = "absent" THEN 3
       ELSE IF ProjectKind(RequestedProjectPath) = "file" THEN 4
       ELSE IF req.project_file \notin DOMAIN dirEntries THEN 5
       ELSE IF DeclaresConfigFile /\ NoConfigFileSupplied THEN 6
       ELSE IF DeclaresConfigFile /\ req.config_file.v \notin DOMAIN dirEntries THEN 7
       ELSE 0

\* the check an exception of execute_in_project reports.  An entry of the
\* registry that is no mapping fails the command check with AttributeError.
CheckOfError(e) ==
    CASE e.type = "ValueError" /\ Head(e.msg) = "Tool not found: " -> 1
      [] e.type = "ValueError" /\ Head(e.msg) = "Command not defined for tool: " -> 2
      [] e.type = "AttributeError" -> 2
      [] e.type = "ProjectNotFoundError" -> 3
      [] e.type = "ValueError" /\ Head(e.msg) = "Not a directory: " -> 4
      [] e.type = "ProjectFileNotFoundError"
           /\ Head(e.msg) = "Project file not found: " -> 5
      [] e.type = "ValueError" /\ e.msg[Len(e.msg)] = " requires config_file parameter" -> 6
      [] e.type = "ProjectFileNotFoundError"
           /\ Head(e.msg) = "Config file not found: " -> 7
      [] OTHER -> 0

ExecuteSpawned == req.op = "execute" /\ pc # "idle" /\ status # "raised"

\* the verbosity in effect: the caller's, else the default of the registry
VerbosityInEffect == IF req.verbose.some THEN req.verbose.v ELSE 3

\* the files the collector finds in the directory of the input file
CollectedByRun ==
    FindOutputFiles(UploadsDir, dirEntries,
        DictGet(DictGet(DictGet(config, "tools"), req.tool_id[1]), "output_types").l)

C16_CollectorIdempotent ==
    \A i, j \in DOMAIN collected :
        /\ \A k, l \in DOMAIN collected[i].files :
               k < l => ~PathLess(collected[i].files[l], collected[i].files[k])
        /\ (collected[i].entries = collected[j].entries
               /\ collected[i].extensions = collected[j].extensions) =>
              collected[i].files = collected[j].files

\* the directory was scanned twice unchanged and holds two matching files
C16_Witness ==
    /\ Len(collected) = 2
    /\ collected[1].entries = collected[2].entries
    /\ collected[1].extensions = collected[2].extensions
    /\ Len(collected[1].files) >= 2
    /\ collected[1].files = collected[2].files

\* the documents config.yaml holds at one time or another
LoadableDocuments == {f.tree : f \in {g \in FileStates : g.kind = "yaml"}}

\* C17: the mapping in effect is always one whole loaded document: until
\* reload assigns, and when it raises (file missing, file not parseable),
\* the mapping in effect when reload was called is still in effect, and
\* when reload returns the mapping is the document it loaded; and every
\* get_tool lookup returns what the lookup returns on one of the mappings
\* in effect while it ran.
C17_ReloadAtomic ==
    /\ config \in LoadableDocuments
    /\ reloader.pc \in {"open", "loaded", "raised"} => config = reloader.before
    /\ reloader.pc = "done" => config = reloader.value
    /\ lookup.pc = "done" =>
           \E m \in lookup.seen : lookup.result = GetTool(m, lookup.tool_id)

\* a reload replaced the mapping while a lookup of exvt was under way: the
\* lookup returned the entry of the old mapping, which the new one changed
C17_Witness ==
    /\ lookup.pc = "done"
    /\ lookup.tool_id = <<"exvt">>
    /\ reloader.pc = "done"
    /\ reloader.before \in lookup.seen
    /\ config \in lookup.seen
    /\ lookup.result = GetTool(reloader.before, lookup.tool_id)
    /\ lookup.result # GetTool(config, lookup.tool_id)

\* C18: two distinct runs never name the same outputs sub-directory, and no
\* run copies a file to a path another run has copied a file to.
C18_RunsKeepApart ==
    \A r1, r2 \in 1..MaxRuns :
        (r1 # r2 /\ runs[r1].pc \in {"named", "copying", "done"}
                 /\ runs[r2].pc \in {"named", "copying", "done"}) =>
            /\ runs[r1].output_subdir # runs[r2].output_subdir
            /\ \A i \in DOMAIN runs[r1].copied_files :
                   \A j \in DOMAIN runs[r2].copied_files :
                       runs[r1].copied_files[i] # runs[r2].copied_files[j]

\* the project call in progress passed its checks
ProjectSpawned == InProject /\ pc # "idle" /\ status # "raised"

\* the contract of the tool of the call, as the registry holds it
ContractOfCall == DictGet(DictGet(config, "tools"), req.tool_id[1])

\* the contract declares a parameter bound to -k
DeclaresChecker ==
    \E i \in DOMAIN DictGet(ContractOfCall, "parameters").l :
        DictGet(DictGet(ContractOfCall, "parameters").l[i], "flag") = StrV("-k")

\* the -c part of the argv: the config file the caller supplied, if any
ConfigFilePart ==
    IF req.config_file \notin {NoneName, Some(<<>>)}
    THEN << <<"-c">>, req.config_file.v >> ELSE <<>>

\* the -k part: the caller's checker, else the default of the contract
\* that declares -k, else nothing
CheckerPart ==
    IF req.checker # NoneStr THEN << <<"-k">>, <<req.checker.v>> >>
    ELSE IF DeclaresChecker THEN << <<"-k">>, <<"ecoa-exvt">> >>
    ELSE <<>>

\* the verbosity part: -v and the decimal verbosity for the kind valued,
\* the bare -v for the kind boolean, which is also the kind of a contract
\* that names none
VerbosityPart ==
    IF DictGet(ContractOfCall, "verbose_type") = StrV("valued")
    THEN << <<"-v">>, IntToStr(VerbosityInEffect) >>
    ELSE << <<"-v">> >>

\* C19: an execute_in_project call that passes its checks makes its first
\* subprocess.run call with the argv command, -p, project file, then the
\* -c part, then the -k part, then the verbosity part, in the project
\* directory.
C19_ProjectArgvOrder ==
    ProjectSpawned =>
        /\ Len(spawned) >= 1
        /\ spawned[1] =
              [what |-> "tool",
               argv |-> << <<DictGet(ContractOfCall, "command").s>>, <<"-p">>,
                           req.project_file >>
                          \o ConfigFilePart \o CheckerPart \o VerbosityPart,
               cwd |-> RequestedProjectPath]

\* all three optional parts are present
C19_Witness ==
    /\ ProjectSpawned
    /\ req.tool_id = <<"asctg">>
    /\ spawned[1].argv =
          << <<"ecoa-asctg">>, <<"-p">>, ProjectXml, <<"-c">>, ConfigXml,
             <<"-k">>, <<"ecoa-chk">>, <<"-v">>, <<"1">> >>

\* the base name of the input file of the call: the input file of execute,
\* the project file of execute_in_project
InputFileOfCall ==
    IF req.op = "execute" THEN req.input_file ELSE req.project_file

\* C20: no file the call reports as collected is the input file of the
\* call, whatever the declared output extensions.
C20_InputFileExcluded ==
    status = "returned" =>
        \A i \in DOMAIN ResultFiles : ResultFiles[i].name # InputFileOfCall

\* ---------------------------------------------------------------- C21
\* the entries of `spawned` made by compile_project
BuildSpawns ==
    SelectSeq(spawned, LAMBDA s : s.what \in {"cmake", "make"})

\* the configure step of this call returned a non-zero exit code
ConfigureFailed ==
    /\ Len(BuildSpawns) > 0
    /\ loc.cmake_rc # 0

\* the error stream of the record ends with the section of the build step
\* saying that it did not run
SaysMakeNotExecuted(r) ==
    \E i \in 1..(Len(r.compile_stderr) - 1) :
        /\ r.compile_stderr[i] = "=== Make Errors ==="
        /\ r.compile_stderr[i + 1] = "CMake failed, make not executed"
        /\ i + 1 = Len(r.compile_stderr)

BuildWithoutTimeout ==
    /\ pc = "done"
    /\ Len(BuildSpawns) > 0
    /\ loc.build \notin {"", "notfound", "timeout"}
    /\ "compile_success" \in DOMAIN result

\* both stages of the build ran and returned exit code 0
BothStagesExitedZero ==
    /\ Len(BuildSpawns) = 2
    /\ loc.cmake_rc = 0
    /\ loc.make_rc = Some(0)

\* C22: when the descriptor is found and neither stage times out,
\* compile_success is true exactly when cmake exited 0 and make exited 0,
\* whatever the build directory holds afterwards, an entry named "bin"
\* included.
C22_SuccessIffBothExitZero ==
    BuildWithoutTimeout => (result.compile_success <=> BothStagesExitedZero)

\* ---------------------------------------------------------------- C23
\* compile_project listed the build directory and returned its record
BuildListed ==
    /\ pc = "done"
    /\ loc.build = "done"
    /\ "executable_files" \in DOMAIN result

\* the names the record reports as executables
ReportedExecutables ==
    {result.executable_files[i] : i \in 1..Len(result.executable_files)}

\* regular files with the execute bit among the names of one directory
RegularExecutables(names) ==
    {n \in names : EntryAttr(n).isfile /\ EntryAttr(n).x}

HasDescriptor(n) ==
    tree[n].kind = "dir" /\ tree[n].cmake = "file"

\* _find_cmakelists_dir was called in this call and returned or raised
SearchReturned == compileCalls > 0 /\ loc.cmake_dir # ""
SearchRaised == compileCalls > 0 /\ loc.build = "notfound"

\* the conventional output directories that exist and hold the descriptor
\* or have a parent that holds it, by their index in the list
MatchingConventional ==
    {i \in 1..Len(CommonOutputDirs) :
        /\ tree[CommonOutputDirs[i]].kind = "dir"
        /\ HasDescriptor(CommonOutputDirs[i]) \/ HasDescriptor(".")}

\* C24: _find_cmakelists_dir returns a directory that directly contains
\* the build descriptor whenever some directory of the project tree
\* contains one and raises not-found only when none does; the first
\* conventional output directory that exists and contains the descriptor,
\* or whose parent contains it, determines the result, and the recursive
\* walk is consulted only if no conventional directory matches.
C24_FindsDescriptorDir ==
    /\ SearchReturned => HasDescriptor(loc.cmake_dir)
    /\ SearchRaised => ~\E n \in TreeNodes : HasDescriptor(n)
    /\ (compileCalls > 0 /\ \E n \in TreeNodes : HasDescriptor(n)) => SearchReturned
    /\ (SearchReturned /\ MatchingConventional # {}) =>
           LET first == CHOOSE i \in MatchingConventional :
                            \A j \in MatchingConventional : i <= j
           IN loc.cmake_dir = IF HasDescriptor(CommonOutputDirs[first])
                              THEN CommonOutputDirs[first] ELSE "."

\* ---------------------------------------------------------------- C27
\* the positions of the tool's argv that hold the flag -c before a value
ConfigFlagAt ==
    {i \in 1..(Len(spawned[1].argv) - 1) : spawned[1].argv[i] = <<"-c">>}

\* the caller supplied a config file that the project directory lacks
SuppliedConfigFileAbsent ==
    /\ InProject
    /\ pc # "idle"
    /\ req.config_file.some
    /\ req.config_file.v # <<>>
    /\ req.config_file.v \notin DOMAIN dirEntries

\* C27: whenever execute_in_project spawns a process whose argv contains
\* -c and a value, the value names an entry that exists in the project
\* directory; a supplied config file that does not exist makes the call
\* fail, and no process is spawned.
C27_ConfigFileChecked ==
    /\ ProjectSpawned =>
           \A i \in ConfigFlagAt : spawned[1].argv[i + 1] \in DOMAIN dirEntries
    /\ SuppliedConfigFileAbsent => (status = "raised" /\ spawned = <<>>)

\* ---------------------------------------------------------------- C28
\* the kinds of the processes started so far, in the order of their start
SpawnOrder == [i \in 1..Len(spawned) |-> spawned[i].what]

\* some stage of the call in progress has failed: the tool, the search for
\* the descriptor, the creation of the build directory, cmake, make or the
\* listing of the executables
StageFailed ==
    \/ loc.outcome \in {"timeout", "enoent", "oserror"}
    \/ loc.outcome = "exit" /\ loc.rc # 0
    \/ loc.build \in {"notfound", "mkdir", "timeout", "enoent", "oserror", "listing"}
    \/ Len(BuildSpawns) > 0 /\ loc.cmake_rc # 0
    \/ loc.make_rc.some /\ loc.make_rc.v # 0

\* C28: within one call no external process is retried: the tool, cmake
\* and make are each started at most once, in that order, and after a
\* failure of any stage no further process is started.
C28_NoRetries ==
    /\ [](SpawnOrder \in { <<>>, <<"tool">>, <<"tool", "cmake">>,
                            <<"tool", "cmake", "make">> })
    /\ [][StageFailed => spawned' = spawned]_vars

C28_Witness ==
    /\ SpawnOrder = <<"tool", "cmake", "make">>
    /\ StageFailed
    /\ pc = "done"

\* ---------------------------------------------------------------- C29
\* the keys of the tools mapping of m, the empty set when m has none
ToolsKeysOf(m) ==
    IF m.t = "dict" /\ "tools" \in DOMAIN m.d /\ m.d["tools"].t = "dict"
    THEN DOMAIN m.d["tools"].d ELSE {}

\* C29: get_tool(tool_id) returns a value only when tool_id is itself a
\* key of the tools mapping, and then the contract stored under that key;
\* for every other string, an identifier with a dot such as
\* "exvt.command" in particular, it returns None.
C29_GetToolOnlyKeys ==
    (lookup.pc = "done" /\ lookup.result # NoneV) =>
        \E m \in lookup.seen :
            /\ Len(lookup.tool_id) = 1
            /\ lookup.tool_id[1] \in ToolsKeysOf(m)
            /\ lookup.result = m.d["tools"].d[lookup.tool_id[1]]

\* ---------------------------------------------------------------- C25
\* the request passed the validation of the handler, so that the handler
\* went on to resolve the verbosity
ReachedVerbosity ==
    /\ http.pc # "idle"
    /\ http.body.project_name # ""
    /\ http.body.project_file # <<>>
    /\ GetTool(config, http.body.tool) # NoneV

\* the caller's value is an integer or a string of decimal digits
SuppliedInteger ==
    \/ http.body.verbose.k = "int"
    \/ /\ http.body.verbose.k = "str"
       /\ http.body.verbose.s # <<>>
       /\ \A i \in 1..Len(http.body.verbose.s) :
              http.body.verbose.s[i] \in {"0", "1", "2", "3", "4", "5", "6", "7", "8", "9"}

\* the caller's value is nothing an integer can be read from
SuppliedNoInteger ==
    \/ http.body.verbose.k \in {"absent", "null", "list"}
    \/ /\ http.body.verbose.k = "str"
       /\ \A i \in 1..Len(http.body.verbose.s) :
              http.body.verbose.s[i] \notin {"0", "1", "2", "3", "4", "5", "6", "7", "8", "9"}

\* C25: the resolution of the verbosity never fails a request: whatever
\* value the caller supplies (integer, numeric string, non-numeric string,
\* null or any other JSON value), the handler uses it when it parses as an
\* integer and otherwise falls back to the default, and the tool is still
\* executed.
C25_VerbosityNeverFails ==
    (ReachedVerbosity /\ http.pc = "responded") =>
        /\ http.error # "TypeError"
        /\ req.op = "execute_in_project"
        /\ SuppliedInteger =>
               req.verbose = Some(IF http.body.verbose.k = "int"
                                  THEN http.body.verbose.n
                                  ELSE DecimalValue(http.body.verbose.s, 0))
        /\ SuppliedNoInteger => req.verbose = Some(ConfigVerbose(config))

\* ---------------------------------------------------------------- C26
\* the default of the parameter the contract binds to -k
DeclaredCheckerDefault ==
    LET parameters == DictGet(ContractOfCall, "parameters").l
        i == CHOOSE j \in DOMAIN parameters :
                 DictGet(parameters[j], "flag") = StrV("-k")
    IN DictGet(parameters[i], "default").s

\* the argv of the tool holds -k directly followed by value
CheckerFlagWith(value) ==
    \E i \in 1..(Len(spawned[1].argv) - 1) :
        /\ spawned[1].argv[i] = <<"-k">>
        /\ spawned[1].argv[i + 1] = <<value>>

\* C26: in execute_in_project, when the contract declares -k, the argv
\* holds -k followed by the declared default if the caller supplies no
\* checker, and -k followed by the caller's value if the caller supplies
\* one.
C26_CheckerFlagAlwaysPassed ==
    (ProjectSpawned /\ DeclaresChecker) =>
        IF req.checker.some
        THEN CheckerFlagWith(req.checker.v)
        ELSE CheckerFlagWith(DeclaredCheckerDefault)

\* ---------------------------------------------------------------- C30
\* the place a working directory names lies below the projects base directory
InsideBase(cwd) ==
    /\ Len(Locate(cwd)) > 1
    /\ Locate(cwd)[1] = ProjectsBaseDir(config)

\* C30: for every project_name that execute_in_project accepts, names
\* that contain ".." or start with "/" included, the working directory in
\* which the tool is spawned and its outputs are collected is a directory
\* inside the configured projects base directory.
C30_WorkingDirInsideBase ==
    ProjectSpawned =>
        \A i \in 1..Len(spawned) : InsideBase(spawned[i].cwd)

\* ---------------------------------------------------------------- C31
\* the contract of the call declares a parameter bound to flag
DeclaresFlag(flag) ==
    \E i \in DOMAIN DictGet(ContractOfCall, "parameters").l :
        DictGet(DictGet(ContractOfCall, "parameters").l[i], "flag") = StrV(flag)

\* the argv of the tool holds flag as one of its arguments
ArgvHolds(flag) ==
    \E i \in 1..Len(spawned[1].argv) : spawned[1].argv[i] = <<flag>>

\* C31: the argv built by execute_in_project holds -k only if the contract
\* declares a parameter bound to -k, and -c only if it declares one bound
\* to -c; a checker or config file supplied for a tool that does not
\* declare the parameter never reaches the command line.
C31_FlagsOnlyIfDeclared ==
    ProjectSpawned =>
        /\ ArgvHolds("-k") => DeclaresFlag("-k")
        /\ ArgvHolds("-c") => DeclaresFlag("-c")

\* ---------------------------------------------------------------- C32
\* the call returned a record that carries the fields of a build
BuildResultReturned ==
    /\ pc = "done"
    /\ status = "returned"
    /\ "compile_success" \in DOMAIN result

\* C32: in every build result, compile_success = false implies that
\* executable_files is empty, also when the configure or the build step
\* failed in a build directory that holds executables of an earlier build.
C32_NoExecutablesOnFailure ==
    (BuildResultReturned /\ ~result.compile_success) =>
        result.executable_files = <<>>

\* ---------------------------------------------------------------- C33
\* the versions of the registry mapping that are ever in effect
RegistryVersions == {Registry(<<ExtC, ExtH>>), EditedRegistry}

\* the call has read the contract and, for its build, the compile settings
BuildSettingsRead ==
    /\ InProject
    /\ compileCalls > 0
    /\ loc.make_cmd # <<>>

\* C33: within one execute_in_project request every value read from the
\* registry (the contract and, for a build, the default library, the
\* configure options, the time-out and the make options) comes from one
\* and the same version of the mapping, also when a reload runs
\* concurrently with the request.
C33_OneRegistryVersion ==
    BuildSettingsRead =>
        \E m \in RegistryVersions :
            /\ loc.tool_config = GetTool(m, req.tool_id)
            /\ loc.timeout = DictGetDefault(CompileConfig(m), "timeout", IntV(600)).n
            /\ loc.make_cmd = MakeCmd(m)
            /\ ~req.log_library.some =>
                   loc.log_library = DictGetDefault(CompileConfig(m),
                                         "default_log_library", StrV("log4cplus")).s
            /\ ~req.cmake_options.some =>
                   loc.cmake_options = DictGetDefault(CompileConfig(m),
                                           "cmake_options", ListV(<<>>)).l

\* ---------------------------------------------------------------- C34
\* a call of execute whose tool has not exited with code 0: not started,
\* rejected by a check, still running, exited non-zero, timed out or not
\* spawned
StandaloneWithoutSuccess ==
    /\ req.op = "execute"
    /\ ~(loc.outcome = "exit" /\ loc.rc = 0)

\* C34: execute creates an outputs sub-directory and copies files only
\* after the tool has exited with code 0: when a check fails or the tool
\* exits non-zero, times out or cannot be spawned, no sub-directory is
\* created and no file is copied.
C34_ArchiveOnlyAfterSuccess ==
    StandaloneWithoutSuccess =>
        /\ outDirs = {}
        /\ outFiles = {}
        /\ fsLog = <<>>

\* the tool exited non-zero in a directory that holds a file of a declared
\* output type
C34_Witness ==
    /\ StandaloneWithoutSuccess
    /\ pc = "done"
    /\ loc.outcome = "exit"
    /\ loc.rc # 0
    /\ FileAH \in DOMAIN dirEntries
    /\ ExtH \in {DictGet(loc.tool_config, "output_types").l[i] :
                    i \in DOMAIN DictGet(loc.tool_config, "output_types").l}

\* ---------------------------------------------------------------- C35
\* C35: provided every spawned child exits or reaches its time-out, every
\* call of execute, execute_in_project and compile_project terminates: a
\* call in progress either returns a record or raises, and a build that
\* has started to locate the descriptor ends as done or as failed.
C35_CallsTerminate ==
    (pc \in {"tool", "cmake", "make"}) ~>
        /\ pc = "done"
        /\ status \in {"returned", "raised"}
        /\ compileCalls > 0 => loc.build # ""

\* a call with a build has ended after all three children ran
C35_Witness ==
    /\ pc = "done"
    /\ status = "returned"
    /\ compileCalls > 0
    /\ Len(spawned) = 3
    /\ loc.build = "done"

====
